---- MODULE Spec2Model ----
(***************************************************************************)
(* Offline data-sync engine of the OJT tracker: the local mirror (Dexie),  *)
(* the sync-aware repository (sync-service), the mutation queue and its    *)
(* replay (processSyncQueue), and the SyncProvider that triggers drains.   *)
(***************************************************************************)
EXTENDS Integers, Sequences, FiniteSets, TLC

(* ---------------------------- bounds ----------------------------------- *)
\* write operations performed by the user in one behaviour
MaxWrites == 2
\* drains (processSyncQueue runs) started in one behaviour
MaxDrains == 2
\* repository calls made in an online session in one behaviour
MaxCalls == 2
\* connectivity changes in one behaviour
MaxFlaps == 2
\* authentication events (SIGNED_IN, SIGNED_OUT) in one behaviour
MaxEvents == 4

(* ------------------------- value domains ------------------------------- *)
UserId == "u1"
Dates == {"d1", "d2"}
NULL == "null"
\* the logs a form submits for a date: time-in only, then time-in and time-out
LogInputs ==
  {[date |-> d, time_in |-> "08:00", time_out |-> NULL, hours_rendered |-> NULL] :
     d \in Dates}
  \cup
  {[date |-> d, time_in |-> "08:00", time_out |-> "17:00", hours_rendered |-> "9"] :
     d \in Dates}
\* what the task form submits for a new task, and for an edited one
NewDescriptions == {"a"}
EditDescriptions == {"b"}
HoursValues == {480}
Files == {"f1"}
\* uuid() yields <<"L", n>>; the remote store generates <<"R", n>>
DrainIds == {1, 2}
\* repository calls that can be waiting for the remote store at once (the
\* pages start their reads together, e.g. Promise.all in fetchData)
CallIds == {1, 2}
\* what a remote call can do: apply and answer, answer {data: null, error},
\* or reject the promise
Outcomes == {"ok", "error", "throw"}
NoPayload == [absent |-> TRUE]
NoId == <<"none", 0>>
NoRow == [id |-> NoId]
IdleCall == [op |-> "none"]

VARIABLES
  online,        \* navigator.onLine / useOnlineStatus
  pendingCount,  \* last value delivered by useLiveQuery(sync_queue.count)
  isSyncing,     \* SyncProvider state
  time_logs, tasks, photos, settings,   \* local mirror tables
  sync_queue, nextQueueId,              \* mutation queue, ++queueId
  r_time_logs, r_tasks, r_photos, r_settings,  \* remote store
  nextUuid, nextRemoteId,               \* id generators
  drain,         \* the executions of processSyncQueue
  ret,           \* what the last operation returned / did
  call,          \* the repository calls waiting at their remote call
  seeded,        \* SyncProvider's seeded ref
  hist           \* bookkeeping of the behaviour so far

vars == <<online, pendingCount, isSyncing, time_logs, tasks, photos, settings,
          sync_queue, nextQueueId, r_time_logs, r_tasks, r_photos, r_settings,
          nextUuid, nextRemoteId, drain, ret, call, seeded, hist>>

local == <<time_logs, tasks, photos, settings>>
remote == <<r_time_logs, r_tasks, r_photos, r_settings>>

(* --------------------------- Dexie tables ------------------------------ *)
\* table.put(row): insert or replace by primary key
Put(tbl, row) == {r \in tbl : r.id # row.id} \cup {row}
\* table.delete(id)
Delete(tbl, id) == {r \in tbl : r.id # id}
\* table.where("log_id").equals(id).delete()
DeleteWhereLogIdNone(tbl, id) == tbl
DeleteWhereLogId(tbl, id) == {r \in tbl : r.log_id # id}
\* table.where("log_id").equals(old).modify({ log_id: new })
ModifyLogIdNone(tbl, old, new) == tbl
ModifyLogId(tbl, old, new) ==
  {IF r.log_id = old THEN [r EXCEPT !.log_id = new] ELSE r : r \in tbl}
\* table.where({ date, user_id }).first()
WhereDateUser(tbl, date, uid) == {r \in tbl : r.date = date /\ r.user_id = uid}

\* the row of a table with a given id (the table holds one)
RowOf(tbl, id) == CHOOSE r \in tbl : r.id = id
Has(tbl, id) == \E r \in tbl : r.id = id

(* ------------------------ photo encodings ------------------------------ *)
\* fileToBase64: a data: URL holding the file's bytes
fileToBase64(file) == <<"data", file>>
\* base64ToFile: the bytes back out of a data: URL
base64ToFile(b64) == b64[2]
\* supabase.storage.upload + getPublicUrl: the public URL of the stored file
PublicUrlLocal(file) == <<"data", file>>
PublicUrl(file) == <<"https", file>>
NoBlob == <<"none", "none">>

(* -------------------------- mutation queue ----------------------------- *)
\* db.sync_queue.orderBy("queueId").toArray()
RECURSIVE SortedSeq(_)
SortedSeq(S) ==
  IF S = {} THEN <<>>
  ELSE LET m == CHOOSE e \in S : \A o \in S : e.queueId <= o.queueId
       IN <<m>> \o SortedSeq(S \ {m})
RECURSIVE ReverseSeq(_)
ReverseSeq(S) ==
  IF S = {} THEN <<>>
  ELSE LET m == CHOOSE e \in S : \A o \in S : e.queueId >= o.queueId
       IN <<m>> \o ReverseSeq(S \ {m})
OrderByQueueId(q) == SortedSeq(q)
\* db.sync_queue.add({...}): the key is the auto-increment counter
QueueEntryFirstKey(qid, table, action, rowId, payload) ==
  [queueId |-> 1, table |-> table, action |-> action, rowId |-> rowId,
   payload |-> payload]
QueueEntry(qid, table, action, rowId, payload) ==
  [queueId |-> qid, table |-> table, action |-> action, rowId |-> rowId,
   payload |-> payload]


(* ---------------------------- remote store ----------------------------- *)
NewUuid == <<"L", nextUuid>>
NewRemoteId == <<"R", nextRemoteId>>

\* supabase.from("time_logs").upsert(row, { onConflict: "date,user_id" })
\*   .select().single(): the row the store holds afterwards.  On a conflict the
\* stored row keeps its id; on an insert the store keeps the supplied id or
\* assigns its own (fresh).
RemoteUpsertData(rtl, row, fresh) ==
  LET ex == WhereDateUser(rtl, row.date, row.user_id)
  IN IF ex # {} THEN [row EXCEPT !.id = (CHOOSE r \in ex : TRUE).id]
     ELSE IF fresh THEN [row EXCEPT !.id = NewRemoteId] ELSE row
RemoteUpsert(rtl, row, fresh) ==
  {r \in rtl : ~(r.date = row.date /\ r.user_id = row.user_id)}
    \cup {RemoteUpsertData(rtl, row, fresh)}
\* .insert({...}).select().single() on tasks / photos: the store assigns the id
RemoteInsertData(fields) == [id |-> NewRemoteId] @@ fields
\* .update(partial).eq("id", id) / .eq("user_id", uid): rows that match change
RemoteUpdateById(rt, id, partial) ==
  {IF r.id = id THEN partial @@ r ELSE r : r \in rt}
RemoteUpdateByUser(rt, uid, partial) ==
  {IF r.user_id = uid THEN partial @@ r ELSE r : r \in rt}
\* .delete().eq("id", id): no row matching is not an error
RemoteDeleteUnfiltered(rt, id) == {}
RemoteDelete(rt, id) == {r \in rt : r.id # id}
\* time_logs delete cascades to the tasks and photos of the log (foreign key)
RemoteCascade(rt, logId) == {r \in rt : r.log_id # logId}

(* ------------------------------ bookkeeping ---------------------------- *)
\* the content of the stores with the identifiers left out: time entries by
\* date, tasks and photos by the date of their entry, with multiplicity
DateOf(tl, logId) == IF Has(tl, logId) THEN RowOf(tl, logId).date ELSE "orphan"
LogView(tl) ==
  {[date |-> r.date, time_in |-> r.time_in, time_out |-> r.time_out] : r \in tl}
TaskView(tk, tl) ==
  {<<DateOf(tl, t.log_id), t.description,
     Cardinality({u \in tk : DateOf(tl, u.log_id) = DateOf(tl, t.log_id)
                              /\ u.description = t.description})>> : t \in tk}
PhotoView(ph, tl) ==
  {<<DateOf(tl, p.log_id), base64ToFile(p.image_url),
     Cardinality({u \in ph : DateOf(tl, u.log_id) = DateOf(tl, p.log_id)
                              /\ u.image_url[2] = p.image_url[2]})>> : p \in ph}
SettingsView(st) ==
  {[required_ojt_hours |-> r.required_ojt_hours, accent_color |-> r.accent_color,
    theme |-> r.theme] : r \in st}
StoreView(tl, tk, ph, st) ==
  <<LogView(tl), TaskView(tk, tl), PhotoView(ph, tl), SettingsView(st)>>
EmptyView == <<{}, {}, {}, {}>>

\* a write was performed: count it, and leave the all-offline scenario when it
\* was performed online
NoteWrite ==
  [hist EXCEPT !.writes = @ + 1,
               !.scen = IF online \/ @ # "offline" THEN "dirty" ELSE @]


(* ------------------------------ time logs ------------------------------ *)
\* db.sync_queue.add(...)
EnqueueNothing(table, action, rowId, payload) ==
  UNCHANGED <<sync_queue, nextQueueId>>
Enqueue(table, action, rowId, payload) ==
  /\ sync_queue' = sync_queue \cup
        {QueueEntry(nextQueueId, table, action, rowId, payload)}
  /\ nextQueueId' = nextQueueId + 1
NoEnqueue == UNCHANGED <<sync_queue, nextQueueId>>

\* const id = existing?.id ?? uuid()
UpsertIdsFresh(date) == {NewUuid}
UpsertIds(date) ==
  LET existing == WhereDateUser(time_logs, date, UserId)
  IN IF existing # {} THEN {r.id : r \in existing} ELSE {NewUuid}

\* Put(Delete(..)) of the id change: delete the old row, put the remote one
ReplaceRow(tbl, oldId, data) == Put(Delete(tbl, oldId), data)

UpsertTimeLog(log, id, out, fresh) ==
  LET row == [id |-> id, date |-> log.date, time_in |-> log.time_in,
              time_out |-> log.time_out, hours_rendered |-> log.hours_rendered,
              user_id |-> UserId]
      data == RemoteUpsertData(r_time_logs, row, fresh)
  IN /\ id \in UpsertIds(log.date)
     /\ online \/ (out = "ok" /\ ~fresh)
     /\ nextUuid' = IF id = NewUuid THEN nextUuid + 1 ELSE nextUuid
     /\ IF online /\ out = "ok"
        THEN /\ r_time_logs' = RemoteUpsert(r_time_logs, row, fresh)
             /\ nextRemoteId' =
                  IF data.id = NewRemoteId THEN nextRemoteId + 1 ELSE nextRemoteId
             /\ IF data.id # row.id
                THEN /\ time_logs' = ReplaceRow(Put(time_logs, row), row.id, data)
                     /\ tasks' = ModifyLogId(tasks, row.id, data.id)
                     /\ photos' = ModifyLogId(photos, row.id, data.id)
                ELSE /\ time_logs' = Put(time_logs, row)
                     /\ UNCHANGED <<tasks, photos>>
             /\ NoEnqueue
             /\ ret' = [op |-> "upsertTimeLog", row |-> data, threw |-> FALSE]
        ELSE /\ time_logs' = Put(time_logs, row)
             /\ Enqueue("time_logs", "upsert", row.id, row)
             /\ ret' = [op |-> "upsertTimeLog", row |-> row, threw |-> FALSE]
             /\ UNCHANGED <<tasks, photos, r_time_logs, nextRemoteId>>
     /\ hist' = NoteWrite
     /\ UNCHANGED <<seeded, call, online, pendingCount, isSyncing, settings, r_tasks,
                    r_photos, r_settings, drain>>

DeleteTimeLog(id, out) ==
  /\ Has(time_logs, id)
  /\ online \/ out = "ok"
  /\ time_logs' = Delete(time_logs, id)
  /\ tasks' = DeleteWhereLogId(tasks, id)
  /\ photos' = DeleteWhereLogId(photos, id)
  /\ IF online /\ out = "ok"
     THEN /\ r_time_logs' = RemoteDelete(r_time_logs, id)
          /\ r_tasks' = RemoteCascade(r_tasks, id)
          /\ r_photos' = RemoteCascade(r_photos, id)
     ELSE UNCHANGED <<r_time_logs, r_tasks, r_photos>>
  \* the awaited delete is not checked for a returned error: only a rejected
  \* promise reaches the catch and the queue
  /\ IF online /\ out # "throw"
     THEN NoEnqueue
     ELSE Enqueue("time_logs", "delete", id, NoPayload)
  /\ ret' = [op |-> "deleteTimeLog", row |-> NoRow, threw |-> FALSE]
  /\ hist' = NoteWrite
  /\ UNCHANGED <<seeded, call, online, pendingCount, isSyncing, settings, r_settings,
                 nextUuid, nextRemoteId, drain>>

(* -------------------------------- tasks -------------------------------- *)
CreateTask(logId, description, out) ==
  LET row == [id |-> NewUuid, log_id |-> logId, description |-> description]
      data == RemoteInsertData([log_id |-> logId, description |-> description])
  IN /\ online \/ out = "ok"
     /\ nextUuid' = nextUuid + 1
     /\ IF online /\ out = "ok"
        THEN /\ r_tasks' = r_tasks \cup {data}
             /\ nextRemoteId' = nextRemoteId + 1
             /\ tasks' = IF data.id # row.id
                          THEN ReplaceRow(Put(tasks, row), row.id, data)
                          ELSE Put(tasks, row)
             /\ NoEnqueue
             /\ ret' = [op |-> "createTask", row |-> data, threw |-> FALSE]
        ELSE /\ tasks' = Put(tasks, row)
             /\ Enqueue("tasks", "insert", row.id, row)
             /\ ret' = [op |-> "createTask", row |-> row, threw |-> FALSE]
             /\ UNCHANGED <<r_tasks, nextRemoteId>>
     /\ hist' = NoteWrite
     /\ UNCHANGED <<seeded, call, online, pendingCount, isSyncing, time_logs, photos,
                    settings, r_time_logs, r_photos, r_settings, drain>>

\* the ids this session has handed out: the page may still hold one of them
\* after the mirror has dropped or renamed the row
IssuedIds ==
  {<<"L", n>> : n \in 1..(nextUuid - 1)} \cup
  {<<"R", n>> : n \in 1..(nextRemoteId - 1)}

\* const existing = await db.tasks.get(id);
\* if (!existing) throw new Error("Task not found");
TaskNotFound(id) ==
  /\ ret' = [op |-> "updateTask", row |-> NoRow, threw |-> TRUE,
             message |-> "Task not found", id |-> id]
  /\ UNCHANGED <<tasks, r_tasks, sync_queue, nextQueueId>>

UpdateTaskNoLookup(id, description, out) ==
  LET partial == [description |-> description]
      hit == Has(r_tasks, id)
  IN /\ online \/ out = "ok"
     /\ IF online /\ out = "ok" /\ hit
        THEN /\ r_tasks' = RemoteUpdateById(r_tasks, id, partial)
             /\ NoEnqueue
             /\ ret' = [op |-> "updateTask", row |-> RowOf(r_tasks', id),
                        threw |-> FALSE, id |-> id]
        ELSE /\ Enqueue("tasks", "update", id, partial)
             /\ ret' = [op |-> "updateTask", row |-> NoRow, threw |-> FALSE,
                        id |-> id]
             /\ UNCHANGED r_tasks
     /\ hist' = NoteWrite
     /\ UNCHANGED <<seeded, call, online, pendingCount, isSyncing, time_logs,
                    tasks, photos, settings, r_time_logs, r_photos, r_settings,
                    nextUuid, nextRemoteId, drain>>
UpdateTask(id, description, out) ==
  LET existing == RowOf(tasks, id)
      updated == [existing EXCEPT !.description = description]
      partial == [description |-> description]
      hit == Has(r_tasks, id)
  IN /\ online \/ out = "ok"
     /\ IF ~Has(tasks, id)
        THEN out = "ok" /\ TaskNotFound(id)
        ELSE /\ tasks' = Put(tasks, updated)
             \* .update().eq("id", id).select().single(): no row matching is
             \* an error
             /\ IF online /\ out = "ok" /\ hit
                THEN /\ r_tasks' = RemoteUpdateById(r_tasks, id, partial)
                     /\ NoEnqueue
                     /\ ret' = [op |-> "updateTask", row |-> RowOf(r_tasks', id),
                                threw |-> FALSE, id |-> id]
                ELSE /\ Enqueue("tasks", "update", id, partial)
                     /\ ret' = [op |-> "updateTask", row |-> updated,
                                threw |-> FALSE, id |-> id]
                     /\ UNCHANGED r_tasks
     /\ hist' = NoteWrite
     /\ UNCHANGED <<seeded, call, online, pendingCount, isSyncing, time_logs, photos,
                    settings, r_time_logs, r_photos, r_settings, nextUuid,
                    nextRemoteId, drain>>

DeleteTask(id, out) ==
  /\ Has(tasks, id)
  /\ online \/ out = "ok"
  /\ tasks' = Delete(tasks, id)
  /\ r_tasks' = IF online /\ out = "ok" THEN RemoteDelete(r_tasks, id) ELSE r_tasks
  /\ IF online /\ out # "throw"
     THEN NoEnqueue
     ELSE Enqueue("tasks", "delete", id, NoPayload)
  /\ ret' = [op |-> "deleteTask", row |-> NoRow, threw |-> FALSE]
  /\ hist' = NoteWrite
  /\ UNCHANGED <<seeded, call, online, pendingCount, isSyncing, time_logs, photos,
                 settings,
                 r_time_logs, r_photos, r_settings, nextUuid, nextRemoteId, drain>>


(* -------------------------------- photos ------------------------------- *)
\* localPhoto?.offline_blob: rows put from the remote store carry none
BlobOf(p) == IF "offline_blob" \in DOMAIN p THEN p.offline_blob ELSE NoBlob

UploadPhoto(logId, file, out) ==
  LET base64 == fileToBase64(file)
      row == [id |-> NewUuid, log_id |-> logId, image_url |-> base64,
              offline_blob |-> base64, offline_filename |-> file]
      data == RemoteInsertData([log_id |-> logId, image_url |-> PublicUrl(file)])
  IN /\ online \/ out = "ok"
     /\ nextUuid' = nextUuid + 1
     /\ IF online /\ out = "ok"
        THEN /\ r_photos' = r_photos \cup {data}
             /\ nextRemoteId' = nextRemoteId + 1
             /\ photos' = Put(photos, data)
             /\ NoEnqueue
             /\ ret' = [op |-> "uploadPhoto", row |-> data, threw |-> FALSE]
        ELSE /\ photos' = Put(photos, row)
             /\ Enqueue("photos", "insert", row.id,
                        [log_id |-> logId, filename |-> file])
             /\ ret' = [op |-> "uploadPhoto",
                        row |-> [id |-> row.id, log_id |-> logId,
                                 image_url |-> base64],
                        threw |-> FALSE]
             /\ UNCHANGED <<r_photos, nextRemoteId>>
     /\ hist' = NoteWrite
     /\ UNCHANGED <<seeded, call, online, pendingCount, isSyncing, time_logs, tasks,
                    settings, r_time_logs, r_tasks, r_settings, drain>>

DeletePhoto(photo, out) ==
  /\ photo \in photos
  /\ online \/ out = "ok"
  /\ photos' = Delete(photos, photo.id)
  /\ r_photos' = IF online /\ out = "ok"
                 THEN RemoteDelete(r_photos, photo.id) ELSE r_photos
  /\ IF online /\ out # "throw"
     THEN NoEnqueue
     ELSE Enqueue("photos", "delete", photo.id, [image_url |-> photo.image_url])
  /\ ret' = [op |-> "deletePhoto", row |-> NoRow, threw |-> FALSE]
  /\ hist' = NoteWrite
  /\ UNCHANGED <<seeded, call, online, pendingCount, isSyncing, time_logs, tasks,
                 settings,
                 r_time_logs, r_tasks, r_settings, nextUuid, nextRemoteId, drain>>

(* ------------------------------- settings ------------------------------ *)
DefaultHours == 600
Defaults(id) ==
  [id |-> id, user_id |-> UserId, required_ojt_hours |-> DefaultHours,
   accent_color |-> "green", theme |-> "light"]

\* getSettings(): what it returns and the stores it leaves, as a record.
\* out = "ok": every remote call of it succeeded; otherwise the local fallback.
GetSettingsResult(out) ==
  LET rrows == {r \in r_settings : r.user_id = UserId}
      lrows == {r \in settings : r.user_id = UserId}
  IN IF online /\ out = "ok"
     THEN IF rrows = {}
          THEN [row |-> Defaults(NewRemoteId),
                settings |-> Put(settings, Defaults(NewRemoteId)),
                r_settings |-> r_settings \cup {Defaults(NewRemoteId)},
                uuids |-> 0, rids |-> 1]
          ELSE LET data == CHOOSE r \in rrows : TRUE
               IN [row |-> data, settings |-> Put(settings, data),
                   r_settings |-> r_settings, uuids |-> 0, rids |-> 0]
     ELSE IF lrows # {}
          THEN [row |-> CHOOSE r \in lrows : TRUE, settings |-> settings,
                r_settings |-> r_settings, uuids |-> 0, rids |-> 0]
          ELSE [row |-> Defaults(NewUuid),
                settings |-> Put(settings, Defaults(NewUuid)),
                r_settings |-> r_settings, uuids |-> 1, rids |-> 0]

UpdateSettings(requiredHours, gout, out) ==
  LET g == GetSettingsResult(gout)
      current == g.row
      updated == [current EXCEPT !.required_ojt_hours = requiredHours]
      partial == [required_ojt_hours |-> requiredHours]
      hit == \E r \in g.r_settings : r.user_id = UserId
      rs == RemoteUpdateByUser(g.r_settings, UserId, partial)
  IN /\ online \/ (out = "ok" /\ gout = "ok")
     /\ nextUuid' = nextUuid + g.uuids
     /\ nextRemoteId' = nextRemoteId + g.rids
     /\ IF online /\ out = "ok" /\ hit
        THEN LET data == CHOOSE r \in rs : r.user_id = UserId
             IN /\ r_settings' = rs
                /\ settings' = Put(Put(g.settings, updated), data)
                /\ NoEnqueue
                /\ ret' = [op |-> "updateSettings", row |-> data, threw |-> FALSE]
        ELSE /\ r_settings' = g.r_settings
             /\ settings' = Put(g.settings, updated)
             /\ Enqueue("settings", "update", current.id, partial)
             /\ ret' = [op |-> "updateSettings", row |-> updated, threw |-> FALSE]
     /\ hist' = NoteWrite
     /\ UNCHANGED <<seeded, call, online, pendingCount, isSyncing, time_logs, tasks,
                    photos,
                    r_time_logs, r_tasks, r_photos, drain>>


(* ----------------------------- sync engine ----------------------------- *)
\* pc: idle or run; items: the snapshot of the queue; idx: the next item of
\* the loop; flight: the iteration waiting for its remote answer; synced: the
\* counter of the loop
IdleDrain == [pc |-> "idle", items |-> <<>>, idx |-> 1, flight |-> {},
              synced |-> 0]

\* for (const item of items) { await handler(item) ... }: the next handler is
\* entered only when the previous iteration is over
CanIssueNever(d) == FALSE
CanIssue(d) == drain[d].flight = {}

\* the remote store after the remote calls of the handler of one queue item
\* whose calls are all applied
ReplayRemote(item, fresh) ==
  LET p == item.payload
  IN CASE item.table = "time_logs" /\ item.action = "delete" ->
            <<RemoteDelete(r_time_logs, item.rowId), RemoteCascade(r_tasks, item.rowId),
              RemoteCascade(r_photos, item.rowId), r_settings>>
       [] item.table = "time_logs" /\ item.action = "upsert" ->
            <<RemoteUpsert(r_time_logs, [p EXCEPT !.user_id = UserId], fresh),
              r_tasks, r_photos, r_settings>>
       [] item.table = "tasks" /\ item.action = "delete" ->
            <<r_time_logs, RemoteDelete(r_tasks, item.rowId), r_photos, r_settings>>
       [] item.table = "tasks" /\ item.action = "insert" ->
            <<r_time_logs,
              r_tasks \cup {RemoteInsertData([log_id |-> p.log_id,
                                              description |-> p.description])},
              r_photos, r_settings>>
       [] item.table = "tasks" /\ item.action = "update" ->
            <<r_time_logs, RemoteUpdateById(r_tasks, item.rowId, p), r_photos,
              r_settings>>
       [] item.table = "photos" /\ item.action = "delete" ->
            <<r_time_logs, r_tasks, RemoteDelete(r_photos, item.rowId), r_settings>>
       [] item.table = "photos" /\ item.action = "insert" ->
            <<r_time_logs, r_tasks,
              r_photos \cup
                {RemoteInsertData(
                   [log_id |-> p.log_id,
                    image_url |-> PublicUrl(base64ToFile(
                                    BlobOf(RowOf(photos, item.rowId))))])},
              r_settings>>
       [] item.table = "settings" /\ item.action = "update" ->
            <<r_time_logs, r_tasks, r_photos,
              RemoteUpdateByUser(r_settings, UserId, p)>>

\* the row that .select().single() hands back to the handler (data)
ReplayData(item, fresh) ==
  LET p == item.payload
  IN CASE item.table = "time_logs" /\ item.action = "upsert" ->
            RemoteUpsertData(r_time_logs, [p EXCEPT !.user_id = UserId], fresh)
       [] item.table = "tasks" /\ item.action = "insert" ->
            RemoteInsertData([log_id |-> p.log_id, description |-> p.description])
       [] item.table = "photos" /\ item.action = "insert" ->
            RemoteInsertData(
              [log_id |-> p.log_id,
               image_url |-> PublicUrl(base64ToFile(
                               BlobOf(RowOf(photos, item.rowId))))])
       [] OTHER -> NoRow

\* syncPhoto: if (!localPhoto?.offline_blob) return
SkipsRemote(item) ==
  /\ item.table = "photos" /\ item.action = "insert"
  /\ (~Has(photos, item.rowId) \/ BlobOf(RowOf(photos, item.rowId)) = NoBlob)

\* one iteration of the loop, up to the answer of its remote calls
DrainCall(d, out, fresh) ==
  LET dr == drain[d]
      item == dr.items[dr.idx]
      res == IF SkipsRemote(item) THEN "skip" ELSE out
      data == IF res = "ok" THEN ReplayData(item, fresh) ELSE NoRow
      rem == IF res = "ok" THEN ReplayRemote(item, fresh) ELSE remote
  IN /\ dr.pc = "run"
     /\ dr.idx <= Len(dr.items)
     /\ CanIssue(d)
     /\ out = "ok" => online
     /\ SkipsRemote(item) => out = "ok"
     /\ fresh => (out = "ok" /\ item.table = "time_logs" /\ item.action = "upsert")
     /\ r_time_logs' = rem[1]
     /\ r_tasks' = rem[2]
     /\ r_photos' = rem[3]
     /\ r_settings' = rem[4]
     /\ nextRemoteId' = IF data # NoRow /\ data.id = NewRemoteId
                        THEN nextRemoteId + 1 ELSE nextRemoteId
     /\ drain' = [drain EXCEPT ![d].idx = @ + 1,
                               ![d].flight = @ \cup
                                 {[i |-> dr.idx, out |-> res, data |-> data]}]
     /\ hist' = [hist EXCEPT !.scen = IF res \in {"ok", "skip"} THEN @ ELSE "dirty"]
     /\ UNCHANGED <<seeded, call, online, pendingCount, isSyncing, local, sync_queue,
                    nextQueueId, nextUuid, ret>>


\* what the handler does to the local mirror with the row the store returned
\* (syncTimeLog, syncTask and syncPhoto after their awaited remote call)
SyncLocalKeepRefs(item, data) ==
  CASE item.table = "time_logs" /\ data # NoRow /\ data.id # item.rowId ->
         <<ReplaceRow(time_logs, item.rowId, data), tasks, photos>>
    [] item.table = "tasks" /\ data # NoRow /\ data.id # item.rowId ->
         <<time_logs, ReplaceRow(tasks, item.rowId, data), photos>>
    [] item.table = "photos" /\ data # NoRow ->
         <<time_logs, tasks, ReplaceRow(photos, item.rowId, data)>>
    [] OTHER -> <<time_logs, tasks, photos>>
SyncLocal(item, data) ==
  CASE item.table = "time_logs" /\ data # NoRow /\ data.id # item.rowId ->
         <<ReplaceRow(time_logs, item.rowId, data),
           ModifyLogId(tasks, item.rowId, data.id),
           ModifyLogId(photos, item.rowId, data.id)>>
    [] item.table = "tasks" /\ data # NoRow /\ data.id # item.rowId ->
         <<time_logs, ReplaceRow(tasks, item.rowId, data), photos>>
    [] item.table = "photos" /\ data # NoRow ->
         <<time_logs, tasks, ReplaceRow(photos, item.rowId, data)>>
    [] OTHER -> <<time_logs, tasks, photos>>

\* try { handler; sync_queue.delete(item.queueId); synced++ } catch { warn }
QueueAfterAlways(q, item, out) == {e \in q : e.queueId # item.queueId}
QueueAfter(q, item, out) ==
  IF out = "throw" THEN q ELSE {e \in q : e.queueId # item.queueId}

\* the rest of the iteration, once the remote calls have answered
DrainResolve(d) ==
  \E f \in drain[d].flight :
    LET item == drain[d].items[f.i]
        loc == IF f.out = "throw" THEN <<time_logs, tasks, photos>>
               ELSE SyncLocal(item, f.data)
    IN /\ drain[d].pc = "run"
       /\ time_logs' = loc[1]
       /\ tasks' = loc[2]
       /\ photos' = loc[3]
       /\ sync_queue' = QueueAfter(sync_queue, item, f.out)
       /\ drain' = [drain EXCEPT ![d].flight = @ \ {f},
                                 ![d].synced = IF f.out = "throw" THEN @ ELSE @ + 1]
       /\ UNCHANGED <<seeded, call, online, pendingCount, isSyncing, settings,
                      nextQueueId,
                      remote, nextUuid, nextRemoteId, ret, hist>>

\* return synced; and triggerSync's finally { setIsSyncing(false) }
DrainEndClears(d) ==
  /\ drain[d].pc = "run"
  /\ drain[d].idx > Len(drain[d].items)
  /\ drain[d].flight = {}
  /\ drain' = [drain EXCEPT ![d].pc = "idle"]
  /\ isSyncing' = FALSE
  /\ ret' = [op |-> "processSyncQueue", row |-> NoRow, threw |-> FALSE,
             synced |-> drain[d].synced]
  /\ hist' = [hist EXCEPT !.done = @ + 1]
  /\ sync_queue' = {}
  /\ UNCHANGED <<seeded, call, online, pendingCount, local, nextQueueId, remote,
                 nextUuid, nextRemoteId>>
DrainEnd(d) ==
  /\ drain[d].pc = "run"
  /\ drain[d].idx > Len(drain[d].items)
  /\ drain[d].flight = {}
  /\ drain' = [drain EXCEPT ![d].pc = "idle"]
  /\ isSyncing' = FALSE
  /\ ret' = [op |-> "processSyncQueue", row |-> NoRow, threw |-> FALSE,
             synced |-> drain[d].synced]
  /\ hist' = [hist EXCEPT !.done = @ + 1]
  /\ UNCHANGED <<seeded, call, online, pendingCount, local, sync_queue, nextQueueId,
                 remote,
                 nextUuid, nextRemoteId>>

(* ----------------------------- SyncProvider ---------------------------- *)
FreeSlot(d) == drain[d].pc = "idle" /\ \A e \in DrainIds : e < d => drain[e].pc # "idle"

\* triggerSync past its navigator.onLine test: setIsSyncing(true), then
\* processSyncQueue reads the queue
StartDrain(d) ==
  /\ FreeSlot(d)
  /\ hist.drains < MaxDrains
  /\ isSyncing' = TRUE
  /\ drain' = [drain EXCEPT ![d] = [IdleDrain EXCEPT !.pc = "run",
                                       !.items = OrderByQueueId(sync_queue)]]

\* the sidebar's button: onClick={online && pendingCount > 0 ? triggerSync : undefined}
ManualSync(d) ==
  /\ online /\ pendingCount > 0
  /\ StartDrain(d)
  /\ hist' = [hist EXCEPT !.drains = @ + 1]
  /\ UNCHANGED <<seeded, call, online, pendingCount, local, sync_queue, nextQueueId,
                 remote,
                 nextUuid, nextRemoteId, ret>>

\* window "online" event, and the effect that depends on [online]
GoOnline ==
  /\ ~online
  /\ hist.flaps < MaxFlaps
  /\ online' = TRUE
  /\ IF pendingCount > 0
     THEN \E d \in DrainIds : StartDrain(d)
     ELSE UNCHANGED <<isSyncing, drain>>
  /\ hist' = [hist EXCEPT !.flaps = @ + 1,
                          !.drains = IF pendingCount > 0 THEN @ + 1 ELSE @,
                          !.snap = IF hist.scen = "offline"
                                   THEN StoreView(time_logs, tasks, photos, settings)
                                   ELSE EmptyView,
                          !.scen = IF @ = "offline" THEN "online" ELSE "dirty"]
  /\ UNCHANGED <<seeded, call, pendingCount, local, sync_queue, nextQueueId, remote,
                 nextUuid,
                 nextRemoteId, ret>>

\* window "offline" event
GoOffline ==
  /\ online
  /\ hist.flaps < MaxFlaps
  /\ online' = FALSE
  /\ hist' = [hist EXCEPT !.flaps = @ + 1, !.scen = "dirty", !.snap = EmptyView]
  /\ UNCHANGED <<seeded, call, pendingCount, isSyncing, local, sync_queue, nextQueueId,
                 remote, nextUuid, nextRemoteId, drain, ret>>

\* useLiveQuery(() => db.sync_queue.count()) delivers a new count
LiveQuery ==
  /\ pendingCount # Cardinality(sync_queue)
  /\ pendingCount' = Cardinality(sync_queue)
  /\ UNCHANGED <<seeded, call, online, isSyncing, local, sync_queue, nextQueueId,
                 remote,
                 nextUuid, nextRemoteId, drain, ret, hist>>

(* ---------------------------- specification ---------------------------- *)
\* the stores as the online session that signed the user in left them: the
\* settings row the dashboard's getSettings created, and no time entry yet or
\* one synced time entry
SeedLog == [id |-> <<"R", 0>>, date |-> "d1", time_in |-> "08:00",
            time_out |-> NULL, hours_rendered |-> NULL, user_id |-> UserId]
SeedSettings == Defaults(<<"R", -1>>)

Init ==
  /\ online = FALSE
  /\ pendingCount = 0
  /\ isSyncing = FALSE
  /\ \E logged \in BOOLEAN :
       /\ time_logs = IF logged THEN {SeedLog} ELSE {}
       /\ r_time_logs = time_logs
  /\ settings = {SeedSettings}
  /\ r_settings = settings
  /\ tasks = {} /\ photos = {}
  /\ r_tasks = {} /\ r_photos = {}
  /\ sync_queue = {} /\ nextQueueId = 1
  /\ nextUuid = 1 /\ nextRemoteId = 1
  /\ drain = [d \in DrainIds |-> IdleDrain]
  /\ ret = [op |-> "none", row |-> NoRow, threw |-> FALSE]
  /\ call = [c \in CallIds |-> IdleCall]
  /\ seeded = FALSE
  /\ hist = [writes |-> 0, drains |-> 0, flaps |-> 0, done |-> 0, calls |-> 0,
             gets |-> 0, overlap |-> FALSE,
             events |-> 0, signins |-> 0, seeds |-> 0,
             scen |-> IF online THEN "dirty" ELSE "offline",
             snap |-> EmptyView]

Write ==
  \/ \E log \in LogInputs, out \in Outcomes, fresh \in BOOLEAN :
       \E id \in UpsertIds(log.date) : UpsertTimeLog(log, id, out, fresh)
  \/ \E r \in time_logs, out \in Outcomes : DeleteTimeLog(r.id, out)
  \/ \E r \in time_logs, s \in NewDescriptions, out \in Outcomes :
       CreateTask(r.id, s, out)
  \/ \E t \in tasks, s \in EditDescriptions, out \in Outcomes :
       UpdateTask(t.id, s, out)
  \/ \E t \in tasks, out \in Outcomes : DeleteTask(t.id, out)
  \/ \E r \in time_logs, f \in Files, out \in Outcomes : UploadPhoto(r.id, f, out)
  \/ \E ph \in photos, out \in Outcomes : DeletePhoto(ph, out)
  \/ \E h \in HoursValues, gout \in Outcomes, out \in Outcomes :
       UpdateSettings(h, gout, out)

\* the user works without connectivity
OfflineWrite == ~online /\ hist.writes < MaxWrites /\ Write

Drain ==
  \E d \in DrainIds :
    \/ \E out \in Outcomes, fresh \in BOOLEAN : DrainCall(d, out, fresh)
    \/ DrainResolve(d)
    \/ DrainEnd(d)
    \/ ManualSync(d)

\* offline work, connectivity changes and the replay of the queue
Next == OfflineWrite \/ Drain \/ GoOnline \/ GoOffline \/ LiveQuery

Spec == Init /\ [][Next]_vars


(* ------------------- the repository calls, step by step ---------------- *)
\* An online call of the repository runs up to its first awaited remote call
\* (XCall), and goes on when the remote store has answered (XReturn).  Other
\* calls run in between.
Busy(c) == call[c].op # "none"
\* the call takes the lowest free slot
CanCall(c) ==
  /\ ~Busy(c)
  /\ \A e \in CallIds : e < c => Busy(e)
  /\ hist.calls < MaxCalls
\* writes are taken one at a time, as the forms that submit them do while
\* their saving / uploading flag is set: a write is started when no other call
\* is waiting, and nothing is started while a write is waiting
AllReturned == \A e \in CallIds : ~Busy(e)
WriteOps == {"upsertTimeLog", "deleteTimeLog", "createTask", "updateTask",
             "deleteTask", "uploadPhoto", "deletePhoto", "updateSettings"}
NoWriteWaiting == \A e \in CallIds : call[e].op \notin WriteOps
NoteCall == [hist EXCEPT !.calls = @ + 1, !.scen = "dirty", !.snap = EmptyView]
Await(c, rec) == call' = [call EXCEPT ![c] = rec]
Return(c, op, row, out) ==
  /\ call' = [call EXCEPT ![c] = IdleCall]
  /\ ret' = [op |-> op, row |-> row, threw |-> FALSE, out |-> out]
Session == <<online, pendingCount, isSyncing, drain, seeded>>

\* upsertTimeLog, online: local put, then the remote upsert
UpsertTimeLogCall(c, log, id) ==
  LET row == [id |-> id, date |-> log.date, time_in |-> log.time_in,
              time_out |-> log.time_out, hours_rendered |-> log.hours_rendered,
              user_id |-> UserId]
  IN /\ online /\ CanCall(c) /\ AllReturned
     /\ id \in UpsertIds(log.date)
     /\ nextUuid' = IF id = NewUuid THEN nextUuid + 1 ELSE nextUuid
     /\ time_logs' = Put(time_logs, row)
     /\ Await(c, [op |-> "upsertTimeLog", pc |-> "remote", row |-> row])
     /\ hist' = NoteCall
     /\ UNCHANGED <<Session, tasks, photos, settings, sync_queue, nextQueueId,
                    remote, nextRemoteId, ret>>
UpsertTimeLogReturn(c, out, fresh) ==
  LET row == call[c].row
      data == RemoteUpsertData(r_time_logs, row, fresh)
  IN /\ call[c].op = "upsertTimeLog"
     /\ fresh => out = "ok"
     /\ IF out = "ok"
        THEN /\ r_time_logs' = RemoteUpsert(r_time_logs, row, fresh)
             /\ nextRemoteId' =
                  IF data.id = NewRemoteId THEN nextRemoteId + 1 ELSE nextRemoteId
             /\ IF data.id # row.id
                THEN /\ time_logs' = ReplaceRow(time_logs, row.id, data)
                     /\ tasks' = ModifyLogId(tasks, row.id, data.id)
                     /\ photos' = ModifyLogId(photos, row.id, data.id)
                ELSE UNCHANGED <<time_logs, tasks, photos>>
             /\ NoEnqueue
             /\ Return(c, "upsertTimeLog", data, out)
        ELSE /\ Enqueue("time_logs", "upsert", row.id, row)
             /\ Return(c, "upsertTimeLog", row, out)
             /\ UNCHANGED <<time_logs, tasks, photos, r_time_logs, nextRemoteId>>
     /\ UNCHANGED <<Session, settings, r_tasks, r_photos, r_settings, nextUuid,
                    hist>>

\* deleteTimeLog, online: the three local deletes, then the remote delete
DeleteTimeLogCall(c, id) ==
  /\ online /\ CanCall(c) /\ AllReturned
  /\ Has(time_logs, id)
  /\ time_logs' = Delete(time_logs, id)
  /\ tasks' = DeleteWhereLogId(tasks, id)
  /\ photos' = DeleteWhereLogId(photos, id)
  /\ Await(c, [op |-> "deleteTimeLog", pc |-> "remote", id |-> id])
  /\ hist' = NoteCall
  /\ UNCHANGED <<Session, settings, sync_queue, nextQueueId, remote, nextUuid,
                 nextRemoteId, ret>>
DeleteTimeLogReturn(c, out) ==
  LET id == call[c].id
  IN /\ call[c].op = "deleteTimeLog" /\ call[c].pc = "remote"
     /\ IF out = "ok"
        THEN /\ r_time_logs' = RemoteDelete(r_time_logs, id)
             /\ r_tasks' = RemoteCascade(r_tasks, id)
             /\ r_photos' = RemoteCascade(r_photos, id)
        ELSE UNCHANGED <<r_time_logs, r_tasks, r_photos>>
     \* await supabase...delete(): a returned error is not looked at
     /\ IF out = "throw"
        THEN Enqueue("time_logs", "delete", id, NoPayload)
        ELSE NoEnqueue
     /\ Return(c, "deleteTimeLog", NoRow, out)
     /\ UNCHANGED <<Session, local, r_settings, nextUuid, nextRemoteId, hist>>

\* createTask, online: local put, then the remote insert
CreateTaskCall(c, logId, description) ==
  LET row == [id |-> NewUuid, log_id |-> logId, description |-> description]
  IN /\ online /\ CanCall(c) /\ AllReturned
     /\ nextUuid' = nextUuid + 1
     /\ tasks' = Put(tasks, row)
     /\ Await(c, [op |-> "createTask", pc |-> "remote", row |-> row])
     /\ hist' = NoteCall
     /\ UNCHANGED <<Session, time_logs, photos, settings, sync_queue,
                    nextQueueId, remote, nextRemoteId, ret>>
CreateTaskReturn(c, out) ==
  LET row == call[c].row
      data == RemoteInsertData([log_id |-> row.log_id,
                                description |-> row.description])
  IN /\ call[c].op = "createTask"
     /\ IF out = "ok"
        THEN /\ r_tasks' = r_tasks \cup {data}
             /\ nextRemoteId' = nextRemoteId + 1
             /\ tasks' = IF data.id # row.id THEN ReplaceRow(tasks, row.id, data)
                          ELSE tasks
             /\ NoEnqueue
             /\ Return(c, "createTask", data, out)
        ELSE /\ Enqueue("tasks", "insert", row.id, row)
             /\ Return(c, "createTask", row, out)
             /\ UNCHANGED <<tasks, r_tasks, nextRemoteId>>
     /\ UNCHANGED <<Session, time_logs, photos, settings, r_time_logs,
                    r_photos, r_settings, nextUuid, hist>>

\* updateTask, online: local put of the edited row, then the remote update
UpdateTaskCall(c, id, description) ==
  LET updated == [RowOf(tasks, id) EXCEPT !.description = description]
  IN /\ online /\ CanCall(c) /\ AllReturned
     /\ Has(tasks, id)
     /\ tasks' = Put(tasks, updated)
     /\ Await(c, [op |-> "updateTask", pc |-> "remote", id |-> id,
                  row |-> updated])
     /\ hist' = NoteCall
     /\ UNCHANGED <<Session, time_logs, photos, settings, sync_queue,
                    nextQueueId, remote, nextUuid, nextRemoteId, ret>>
UpdateTaskReturn(c, out) ==
  LET id == call[c].id
      partial == [description |-> call[c].row.description]
  IN /\ call[c].op = "updateTask"
     \* .update().eq("id", id).select().single(): no row matching is an error
     /\ IF out = "ok" /\ Has(r_tasks, id)
        THEN /\ r_tasks' = RemoteUpdateById(r_tasks, id, partial)
             /\ NoEnqueue
             /\ Return(c, "updateTask", RowOf(r_tasks', id), out)
        ELSE /\ Enqueue("tasks", "update", id, partial)
             /\ Return(c, "updateTask", call[c].row,
                       IF out = "ok" THEN "error" ELSE out)
             /\ UNCHANGED r_tasks
     /\ UNCHANGED <<Session, local, r_time_logs, r_photos, r_settings, nextUuid,
                    nextRemoteId, hist>>

\* deleteTask, online: local delete, then the remote delete
DeleteTaskCall(c, id) ==
  /\ online /\ CanCall(c) /\ AllReturned
  /\ Has(tasks, id)
  /\ tasks' = Delete(tasks, id)
  /\ Await(c, [op |-> "deleteTask", pc |-> "remote", id |-> id])
  /\ hist' = NoteCall
  /\ UNCHANGED <<Session, time_logs, photos, settings, sync_queue, nextQueueId,
                 remote, nextUuid, nextRemoteId, ret>>
DeleteTaskReturn(c, out) ==
  LET id == call[c].id
  IN /\ call[c].op = "deleteTask"
     /\ r_tasks' = IF out = "ok" THEN RemoteDelete(r_tasks, id) ELSE r_tasks
     /\ IF out = "throw"
        THEN Enqueue("tasks", "delete", id, NoPayload)
        ELSE NoEnqueue
     /\ Return(c, "deleteTask", NoRow, out)
     /\ UNCHANGED <<Session, local, r_time_logs, r_photos, r_settings, nextUuid,
                    nextRemoteId, hist>>

\* uploadPhoto, online: the remote upload and insert come first; the local put
\* follows the answer
UploadPhotoCall(c, logId, file) ==
  /\ online /\ CanCall(c) /\ AllReturned
  /\ nextUuid' = nextUuid + 1
  /\ Await(c, [op |-> "uploadPhoto", pc |-> "remote", id |-> NewUuid,
               log_id |-> logId, file |-> file])
  /\ hist' = NoteCall
  /\ UNCHANGED <<Session, local, sync_queue, nextQueueId, remote, nextRemoteId,
                 ret>>
UploadPhotoReturn(c, out) ==
  LET logId == call[c].log_id
      file == call[c].file
      base64 == fileToBase64(file)
      row == [id |-> call[c].id, log_id |-> logId, image_url |-> base64,
              offline_blob |-> base64, offline_filename |-> file]
      data == RemoteInsertData([log_id |-> logId, image_url |-> PublicUrl(file)])
  IN /\ call[c].op = "uploadPhoto"
     /\ IF out = "ok"
        THEN /\ r_photos' = r_photos \cup {data}
             /\ nextRemoteId' = nextRemoteId + 1
             /\ photos' = Put(photos, data)
             /\ NoEnqueue
             /\ Return(c, "uploadPhoto", data, out)
        ELSE /\ photos' = Put(photos, row)
             /\ Enqueue("photos", "insert", row.id,
                        [log_id |-> logId, filename |-> file])
             /\ Return(c, "uploadPhoto",
                       [id |-> row.id, log_id |-> logId, image_url |-> base64], out)
             /\ UNCHANGED <<r_photos, nextRemoteId>>
     /\ UNCHANGED <<Session, time_logs, tasks, settings, r_time_logs, r_tasks,
                    r_settings, nextUuid, hist>>

\* deletePhoto, online: local delete, then storage remove and remote delete
DeletePhotoCall(c, photo) ==
  /\ online /\ CanCall(c) /\ AllReturned
  /\ photo \in photos
  /\ photos' = Delete(photos, photo.id)
  /\ Await(c, [op |-> "deletePhoto", pc |-> "remote", id |-> photo.id,
               image_url |-> photo.image_url])
  /\ hist' = NoteCall
  /\ UNCHANGED <<Session, time_logs, tasks, settings, sync_queue, nextQueueId,
                 remote, nextUuid, nextRemoteId, ret>>
DeletePhotoReturn(c, out) ==
  LET id == call[c].id
  IN /\ call[c].op = "deletePhoto"
     /\ r_photos' = IF out = "ok" THEN RemoteDelete(r_photos, id) ELSE r_photos
     /\ IF out = "throw"
        THEN Enqueue("photos", "delete", id, [image_url |-> call[c].image_url])
        ELSE NoEnqueue
     /\ Return(c, "deletePhoto", NoRow, out)
     /\ UNCHANGED <<Session, local, r_time_logs, r_tasks, r_settings, nextUuid,
                    nextRemoteId, hist>>

\* getSettings and updateSettings (which starts with getSettings), at their
\* await points: select, insert of the default row, local read, local create
OwnSettings(st) == {r \in st : r.user_id = UserId}
SettingsCall(c, op, hours) ==
  /\ CanCall(c)
  /\ IF op \in WriteOps THEN AllReturned ELSE NoWriteWaiting
  /\ Await(c, [op |-> op, pc |-> IF online THEN "select" ELSE "local",
               hours |-> hours])
  /\ hist' = [NoteCall EXCEPT
                !.gets = IF op = "getSettings" THEN @ + 1 ELSE @,
                !.overlap = @ \/ \E e \in CallIds : call[e].op = "getSettings"]
  /\ UNCHANGED <<Session, local, sync_queue, nextQueueId, remote, nextUuid,
                 nextRemoteId, ret>>
\* getSettings has its row; updateSettings goes on with the local put and, if
\* online, the remote update.  st is the local table getSettings left.
GotSettings(c, row, st) ==
  IF call[c].op = "getSettings"
  THEN /\ settings' = st
       /\ NoEnqueue
       /\ Return(c, "getSettings", row, "ok")
  ELSE LET updated == [row EXCEPT !.required_ojt_hours = call[c].hours]
       IN /\ settings' = Put(st, updated)
          /\ IF online
             THEN /\ Await(c, [op |-> "updateSettings", pc |-> "update",
                               hours |-> call[c].hours, current |-> row])
                  /\ NoEnqueue
                  /\ UNCHANGED ret
             ELSE /\ Enqueue("settings", "update", row.id,
                             [required_ojt_hours |-> call[c].hours])
                  /\ Return(c, "updateSettings", updated, "offline")
Waiting(c, pc) == call[c].op \in {"getSettings", "updateSettings"} /\ call[c].pc = pc
Goto(c, pc) ==
  /\ call' = [call EXCEPT ![c].pc = pc]
  /\ UNCHANGED <<settings, sync_queue, nextQueueId, ret>>
SettingsSelect(c, out) ==
  /\ Waiting(c, "select")
  /\ IF out = "ok"
     THEN IF OwnSettings(r_settings) # {}
          THEN LET data == CHOOSE r \in OwnSettings(r_settings) : TRUE
               IN GotSettings(c, data, Put(settings, data))
          ELSE Goto(c, "insert")
     ELSE Goto(c, "local")
  /\ UNCHANGED <<Session, time_logs, tasks, photos, remote, nextUuid,
                 nextRemoteId, hist>>
\* user_id is the conflict target of the settings upsert, so the store holds
\* one row per user: the insert of a second row is answered with an error
SettingsInsert(c, out) ==
  LET new == Defaults(NewRemoteId)
  IN /\ Waiting(c, "insert")
     /\ IF out = "ok" /\ OwnSettings(r_settings) = {}
        THEN /\ r_settings' = r_settings \cup {new}
             /\ nextRemoteId' = nextRemoteId + 1
             /\ GotSettings(c, new, Put(settings, new))
        ELSE /\ Goto(c, "local")
             /\ UNCHANGED <<r_settings, nextRemoteId>>
     /\ UNCHANGED <<Session, time_logs, tasks, photos, r_time_logs, r_tasks,
                    r_photos, nextUuid, hist>>
SettingsLocalNoLookup(c) ==
  /\ Waiting(c, "local")
  /\ Goto(c, "create")
  /\ UNCHANGED <<Session, time_logs, tasks, photos, remote, nextUuid,
                 nextRemoteId, hist>>
SettingsLocal(c) ==
  /\ Waiting(c, "local")
  /\ IF OwnSettings(settings) # {}
     THEN GotSettings(c, CHOOSE r \in OwnSettings(settings) : TRUE, settings)
     ELSE Goto(c, "create")
  /\ UNCHANGED <<Session, time_logs, tasks, photos, remote, nextUuid,
                 nextRemoteId, hist>>
SettingsCreate(c) ==
  /\ Waiting(c, "create")
  /\ nextUuid' = nextUuid + 1
  /\ GotSettings(c, Defaults(NewUuid), Put(settings, Defaults(NewUuid)))
  /\ UNCHANGED <<Session, time_logs, tasks, photos, remote, nextRemoteId, hist>>
SettingsUpdate(c, out) ==
  LET current == call[c].current
      partial == [required_ojt_hours |-> call[c].hours]
      updated == [current EXCEPT !.required_ojt_hours = call[c].hours]
      rs == RemoteUpdateByUser(r_settings, UserId, partial)
  IN /\ Waiting(c, "update")
     /\ IF out = "ok" /\ OwnSettings(r_settings) # {}
        THEN LET data == CHOOSE r \in OwnSettings(rs) : TRUE
             IN /\ r_settings' = rs
                /\ settings' = Put(settings, data)
                /\ NoEnqueue
                /\ Return(c, "updateSettings", data, out)
        ELSE /\ Enqueue("settings", "update", current.id, partial)
             /\ Return(c, "updateSettings", updated,
                       IF out = "ok" THEN "error" ELSE out)
             /\ UNCHANGED <<settings, r_settings>>
     /\ UNCHANGED <<Session, time_logs, tasks, photos, r_time_logs, r_tasks,
                    r_photos, nextUuid, nextRemoteId, hist>>

(* -------------------------------- reads -------------------------------- *)
\* b.date.localeCompare(a.date) on ISO dates / .order("date", descending)
DateRank == [d \in Dates |-> IF d = "d1" THEN 1 ELSE 2]
RECURSIVE SortByDateAsc(_)
SortByDateAsc(S) ==
  IF S = {} THEN <<>>
  ELSE LET m == CHOOSE e \in S : \A o \in S : DateRank[e.date] <= DateRank[o.date]
       IN <<m>> \o SortByDateAsc(S \ {m})
RECURSIVE SortByDateDesc(_)
SortByDateDesc(S) ==
  IF S = {} THEN <<>>
  ELSE LET m == CHOOSE e \in S : \A o \in S : DateRank[e.date] >= DateRank[o.date]
       IN <<m>> \o SortByDateDesc(S \ {m})
OwnLogs(tl) == {r \in tl : r.user_id = UserId}
WhereLogId(tbl, logId) == {r \in tbl : r.log_id = logId}
ReadOps == {"getTimeLogs", "getTimeLogByDate", "getTasksByLogId", "getPhotosByLogId"}
\* the first row of a query, null when there is none
First(S) == IF S = {} THEN NoRow ELSE CHOOSE r \in S : TRUE

\* what the remote query of a read returns (data)
RemoteRead(op, arg) ==
  CASE op = "getTimeLogs" -> [rows |-> SortByDateDesc(r_time_logs), row |-> NoRow]
    [] op = "getTimeLogByDate" ->
         [rows |-> <<>>, row |-> First({r \in r_time_logs : r.date = arg})]
    [] op = "getTasksByLogId" -> [rows |-> WhereLogId(r_tasks, arg), row |-> NoRow]
    [] op = "getPhotosByLogId" -> [rows |-> WhereLogId(r_photos, arg), row |-> NoRow]
\* the local tables after a read has cached its remote result
CacheAfter(op, arg) ==
  CASE op = "getTimeLogs" ->
         <<(time_logs \ OwnLogs(time_logs)) \cup r_time_logs, tasks, photos>>
    [] op = "getTimeLogByDate" ->
         LET data == First({r \in r_time_logs : r.date = arg})
         IN <<IF data # NoRow THEN Put(time_logs, data) ELSE time_logs, tasks,
              photos>>
    [] op = "getTasksByLogId" ->
         <<time_logs, DeleteWhereLogId(tasks, arg) \cup WhereLogId(r_tasks, arg),
           photos>>
    [] op = "getPhotosByLogId" ->
         <<time_logs, tasks,
           DeleteWhereLogId(photos, arg) \cup WhereLogId(r_photos, arg)>>
\* what a read returns from the local mirror
LocalRead(op, arg) ==
  CASE op = "getTimeLogs" ->
         [rows |-> SortByDateDesc(OwnLogs(time_logs)), row |-> NoRow]
    [] op = "getTimeLogByDate" ->
         [rows |-> <<>>, row |-> First(WhereDateUser(time_logs, arg, UserId))]
    [] op = "getTasksByLogId" -> [rows |-> WhereLogId(tasks, arg), row |-> NoRow]
    [] op = "getPhotosByLogId" -> [rows |-> WhereLogId(photos, arg), row |-> NoRow]
\* the arguments the pages pass: a date, the id of a known time entry
ReadArgs(op) ==
  CASE op = "getTimeLogs" -> {NULL}
    [] op = "getTimeLogByDate" -> Dates
    [] OTHER -> {r.id : r \in time_logs \cup r_time_logs}
ReadResult(op, arg, res, src) ==
  [op |-> op, arg |-> arg, rows |-> res.rows, row |-> res.row, threw |-> FALSE,
   src |-> src]

\* a read made online waits for its remote query
ReadCall(c, op, arg) ==
  /\ online /\ CanCall(c) /\ NoWriteWaiting
  /\ arg \in ReadArgs(op)
  /\ Await(c, [op |-> op, pc |-> "remote", arg |-> arg])
  /\ hist' = NoteCall
  /\ UNCHANGED <<Session, local, sync_queue, nextQueueId, remote, nextUuid,
                 nextRemoteId, ret>>
\* success: overwrite the cached slice and return data; failure: fall through
\* to the local mirror
ReadReturn(c, out) ==
  LET op == call[c].op
      arg == call[c].arg
      loc == CacheAfter(op, arg)
  IN /\ op \in ReadOps
     /\ call' = [call EXCEPT ![c] = IdleCall]
     /\ IF out = "ok"
        THEN /\ time_logs' = loc[1]
             /\ tasks' = loc[2]
             /\ photos' = loc[3]
             /\ ret' = ReadResult(op, arg, RemoteRead(op, arg), "remote")
        ELSE /\ UNCHANGED <<time_logs, tasks, photos>>
             /\ ret' = ReadResult(op, arg, LocalRead(op, arg), "local")
     /\ UNCHANGED <<Session, settings, sync_queue, nextQueueId, remote, nextUuid,
                    nextRemoteId, hist>>
\* a read made offline returns from the local mirror
ReadOffline(op, arg) ==
  /\ ~online /\ hist.calls < MaxCalls /\ NoWriteWaiting
  /\ arg \in ReadArgs(op)
  /\ ret' = ReadResult(op, arg, LocalRead(op, arg), "local")
  /\ hist' = NoteCall
  /\ UNCHANGED <<Session, call, local, sync_queue, nextQueueId, remote,
                 nextUuid, nextRemoteId>>

\* processSyncQueue called offline: if (!isOnline()) return 0
ProcessSyncQueueOfflineDrains ==
  /\ ~online /\ hist.calls < MaxCalls
  /\ ret' = [op |-> "processSyncQueue", row |-> NoRow, threw |-> FALSE,
             synced |-> Cardinality(sync_queue)]
  /\ sync_queue' = {}
  /\ hist' = NoteCall
  /\ UNCHANGED <<Session, call, local, nextQueueId, remote, nextUuid,
                 nextRemoteId>>
ProcessSyncQueueOffline ==
  /\ ~online /\ hist.calls < MaxCalls
  /\ ret' = [op |-> "processSyncQueue", row |-> NoRow, threw |-> FALSE,
             synced |-> 0]
  /\ hist' = NoteCall
  /\ UNCHANGED <<Session, call, local, sync_queue, nextQueueId, remote,
                 nextUuid, nextRemoteId>>

(* --------------------- specification: a live session ------------------- *)
\* a session that starts offline and goes online, for a user whose settings
\* row exists or was never created, with the queue left undrained
InitLive ==
  /\ online = FALSE
  /\ pendingCount = 0
  /\ isSyncing = FALSE
  /\ \E logged \in BOOLEAN :
       /\ time_logs = IF logged THEN {SeedLog} ELSE {}
       /\ r_time_logs = time_logs
  /\ \E known \in BOOLEAN :
       /\ settings = IF known THEN {SeedSettings} ELSE {}
       /\ r_settings = settings
  /\ tasks = {} /\ photos = {}
  /\ r_tasks = {} /\ r_photos = {}
  /\ sync_queue = {} /\ nextQueueId = 1
  /\ nextUuid = 1 /\ nextRemoteId = 1
  /\ drain = [d \in DrainIds |-> IdleDrain]
  /\ ret = [op |-> "none", row |-> NoRow, threw |-> FALSE]
  /\ call = [c \in CallIds |-> IdleCall]
  /\ seeded = FALSE
  /\ hist = [writes |-> 0, drains |-> 0, flaps |-> 0, done |-> 0, calls |-> 0,
             gets |-> 0, overlap |-> FALSE,
             events |-> 0, signins |-> 0, seeds |-> 0,
             scen |-> "dirty", snap |-> EmptyView]

WriteCall(c) ==
  \/ \E log \in LogInputs : \E id \in UpsertIds(log.date) :
       UpsertTimeLogCall(c, log, id)
  \/ \E r \in time_logs : DeleteTimeLogCall(c, r.id)
  \/ \E r \in time_logs, s \in NewDescriptions : CreateTaskCall(c, r.id, s)
  \/ \E t \in tasks, s \in EditDescriptions : UpdateTaskCall(c, t.id, s)
  \/ \E t \in tasks : DeleteTaskCall(c, t.id)
  \/ \E r \in time_logs, f \in Files : UploadPhotoCall(c, r.id, f)
  \/ \E ph \in photos : DeletePhotoCall(c, ph)
  \/ \E h \in HoursValues : SettingsCall(c, "updateSettings", h)
WriteReturn(c) ==
  \/ \E out \in Outcomes, fresh \in BOOLEAN : UpsertTimeLogReturn(c, out, fresh)
  \/ \E out \in Outcomes :
       \/ DeleteTimeLogReturn(c, out)
       \/ CreateTaskReturn(c, out)
       \/ UpdateTaskReturn(c, out)
       \/ DeleteTaskReturn(c, out)
       \/ UploadPhotoReturn(c, out)
       \/ DeletePhotoReturn(c, out)
SettingsStep(c) ==
  \/ SettingsCall(c, "getSettings", NULL)
  \/ \E out \in Outcomes : SettingsSelect(c, out)
  \/ \E out \in Outcomes : SettingsInsert(c, out)
  \/ SettingsLocal(c)
  \/ SettingsCreate(c)
  \/ \E out \in Outcomes : SettingsUpdate(c, out)
Read(c) ==
  \/ \E op \in ReadOps : \E arg \in ReadArgs(op) : ReadCall(c, op, arg)
  \/ \E out \in Outcomes : ReadReturn(c, out)

\* the offline work that precedes the calls of the session
OfflineWork == hist.calls = 0 /\ OfflineWrite

NextLive ==
  \/ OfflineWork
  \/ \E c \in CallIds : WriteCall(c) \/ WriteReturn(c) \/ SettingsStep(c) \/ Read(c)
  \/ \E op \in ReadOps : \E arg \in ReadArgs(op) : ReadOffline(op, arg)
  \/ ProcessSyncQueueOffline
  \/ GoOnline
  \/ GoOffline

SpecLive == InitLive /\ [][NextLive]_vars

(* --------------------- sign-in events and seeding ---------------------- *)
\* table.bulkPut(rows): insert or replace each row by primary key
BulkPut(tbl, rows) == {r \in tbl : \A n \in rows : n.id # r.id} \cup rows
\* table.where("log_id").anyOf(logIds).delete()
DeleteAnyOf(tbl, logIds) == {r \in tbl : r.log_id \notin logIds}
\* what the four selects of seedOfflineDB return: the owner's time entries, the
\* tasks and photos joined to them (time_logs!inner), the settings row
SeedLogs == OwnLogs(r_time_logs)
SeedChildren(rt) == {ch \in rt : \E l \in SeedLogs : l.id = ch.log_id}
\* if (res.data?.length) { delete where log_id anyOf(fetched log ids); bulkPut }
SeedReplace(tbl, rows) ==
  IF rows = {} THEN tbl
  ELSE BulkPut(DeleteAnyOf(tbl, {r.log_id : r \in rows}), rows)

\* seedOfflineDB up to its awaited selects: if (!isOnline()) return
SeedOfflineDBCallAlways(c) ==
  /\ CanCall(c)
  /\ Await(c, [op |-> "seedOfflineDB", pc |-> "remote"])
  /\ UNCHANGED ret
  /\ UNCHANGED <<local, remote, sync_queue, nextQueueId>>
SeedOfflineDBCall(c) ==
  /\ CanCall(c)
  /\ IF online
     THEN /\ Await(c, [op |-> "seedOfflineDB", pc |-> "remote"])
          /\ UNCHANGED ret
     ELSE /\ ret' = [op |-> "seedOfflineDB", row |-> NoRow, threw |-> FALSE,
                     out |-> "offline"]
          /\ UNCHANGED call
  /\ UNCHANGED <<local, remote, sync_queue, nextQueueId>>
\* the selects have answered: the transaction over the four local tables.  A
\* select that fails returns { data: null, error }, which is not looked at; a
\* rejected promise ends seedOfflineDB before the transaction (seedLocal
\* catches it).
SeedOfflineDBReturn(c, out) ==
  LET data == First(OwnSettings(r_settings))
  IN /\ call[c].op = "seedOfflineDB"
     /\ CASE out = "ok" ->
               /\ time_logs' = (time_logs \ OwnLogs(time_logs)) \cup SeedLogs
               /\ tasks' = SeedReplace(tasks, SeedChildren(r_tasks))
               /\ photos' = SeedReplace(photos, SeedChildren(r_photos))
               /\ settings' = IF data # NoRow THEN Put(settings, data) ELSE settings
          [] out = "error" ->
               /\ time_logs' = time_logs \ OwnLogs(time_logs)
               /\ UNCHANGED <<tasks, photos, settings>>
          [] out = "throw" -> UNCHANGED local
     /\ call' = [call EXCEPT ![c] = IdleCall]
     /\ ret' = [op |-> "seedOfflineDB", row |-> NoRow, threw |-> out = "throw",
                out |-> out]
     /\ UNCHANGED <<online, pendingCount, isSyncing, drain, seeded, sync_queue,
                    nextQueueId, remote, nextUuid, nextRemoteId, hist>>

\* onAuthStateChange: if (event === "SIGNED_IN" && !seeded.current)
\*   { seeded.current = true; seedLocal() }
SignedInEveryTime(c) ==
  /\ hist.events < MaxEvents
  /\ seeded' = TRUE
  /\ SeedOfflineDBCall(c)
  /\ hist' = [NoteCall EXCEPT !.events = @ + 1, !.signins = @ + 1,
                              !.seeds = @ + 1]
  /\ UNCHANGED <<online, pendingCount, isSyncing, drain, nextUuid, nextRemoteId>>
SignedIn(c) ==
  /\ hist.events < MaxEvents
  /\ IF ~seeded
     THEN /\ seeded' = TRUE
          /\ SeedOfflineDBCall(c)
          /\ hist' = [NoteCall EXCEPT !.events = @ + 1, !.signins = @ + 1,
                                      !.seeds = @ + 1]
     ELSE /\ c = 1
          /\ hist' = [hist EXCEPT !.events = @ + 1, !.signins = @ + 1]
          /\ UNCHANGED <<seeded, call, ret, local, remote, sync_queue, nextQueueId>>
  /\ UNCHANGED <<online, pendingCount, isSyncing, drain, nextUuid, nextRemoteId>>
\* if (event === "SIGNED_OUT") seeded.current = false
SignedOut ==
  /\ hist.events < MaxEvents
  /\ seeded' = FALSE
  /\ hist' = [hist EXCEPT !.events = @ + 1, !.signins = 0, !.seeds = 0]
  /\ UNCHANGED <<online, pendingCount, isSyncing, drain, call, ret, local, remote,
                 sync_queue, nextQueueId, nextUuid, nextRemoteId>>

(* ------------- deleteTimeLog, one local store call at a time ----------- *)
\* await db.time_logs.delete(id)
DeleteTimeLogRow(c, id) ==
  /\ CanCall(c) /\ AllReturned
  /\ Has(time_logs, id)
  /\ time_logs' = Delete(time_logs, id)
  /\ Await(c, [op |-> "deleteTimeLog", pc |-> "tasks", id |-> id])
  /\ hist' = NoteCall
  /\ UNCHANGED <<Session, tasks, photos, settings, sync_queue, nextQueueId, remote,
                 nextUuid, nextRemoteId, ret>>
\* await db.tasks.where("log_id").equals(id).delete()
DeleteTimeLogTasks(c) ==
  /\ call[c].op = "deleteTimeLog" /\ call[c].pc = "tasks"
  /\ tasks' = DeleteWhereLogId(tasks, call[c].id)
  /\ call' = [call EXCEPT ![c].pc = "photos"]
  /\ UNCHANGED <<Session, time_logs, photos, settings, sync_queue, nextQueueId,
                 remote, nextUuid, nextRemoteId, ret, hist>>
\* await db.photos.where("log_id").equals(id).delete(); then if (isOnline())
\* the remote delete is awaited, else the delete is queued
DeleteTimeLogPhotos(c) ==
  /\ call[c].op = "deleteTimeLog" /\ call[c].pc = "photos"
  /\ photos' = DeleteWhereLogId(photos, call[c].id)
  /\ IF online
     THEN /\ call' = [call EXCEPT ![c].pc = "remote"]
          /\ NoEnqueue
          /\ UNCHANGED ret
     ELSE /\ Enqueue("time_logs", "delete", call[c].id, NoPayload)
          /\ Return(c, "deleteTimeLog", NoRow, "offline")
  /\ UNCHANGED <<Session, time_logs, tasks, settings, remote, nextUuid,
                 nextRemoteId, hist>>

(* -------------------- specification: sign-in and seeding --------------- *)
\* offline work left in the mirror, then the authentication events of the
\* SyncProvider and the seeding they start, and deleteTimeLog taken one store
\* call at a time
DeleteTimeLogSteps(c) ==
  \/ \E r \in time_logs : DeleteTimeLogRow(c, r.id)
  \/ DeleteTimeLogTasks(c)
  \/ DeleteTimeLogPhotos(c)
  \/ \E out \in Outcomes : DeleteTimeLogReturn(c, out)

NextSession ==
  \/ OfflineWork
  \/ \E c \in CallIds : SignedIn(c)
  \/ \E c \in CallIds, out \in Outcomes : SeedOfflineDBReturn(c, out)
  \/ SignedOut
  \/ \E c \in CallIds : DeleteTimeLogSteps(c)
  \/ GoOnline
  \/ GoOffline

SpecSession == InitLive /\ [][NextSession]_vars

(* ----------------- specification: drains that run to their end --------- *)
\* one step of the loop of processSyncQueue in execution d, the remote store
\* answering the call with success
DrainStep(d) ==
  \/ \E fresh \in BOOLEAN : DrainCall(d, "ok", fresh)
  \/ DrainResolve(d)
  \/ DrainEnd(d)
\* the application goes online and stays online, and every remote call succeeds
NextFair ==
  \/ OfflineWrite
  \/ \E d \in DrainIds : DrainStep(d) \/ ManualSync(d)
  \/ GoOnline
  \/ LiveQuery
\* every awaited promise settles, and the event loop then runs the
\* continuation of the drain that awaited it
Fairness == \A d \in DrainIds : WF_vars(DrainStep(d))
SpecFair == Init /\ [][NextFair]_vars /\ Fairness

(* --------------- specification: writes while drains run ---------------- *)
\* the user goes on working after the application went online: writes are
\* made at any time, offline or online, and the online ones that the remote
\* store does not accept are queued while a drain may be running
AnyWrite == hist.writes < MaxWrites /\ Write
\* the page still shows a task whose row the mirror no longer holds under that
\* id, and the user edits it
StaleUpdateTask ==
  /\ hist.writes < MaxWrites
  /\ \E id \in IssuedIds, s \in EditDescriptions :
       ~Has(tasks, id) /\ UpdateTask(id, s, "ok")
NextBusy == AnyWrite \/ StaleUpdateTask \/ Drain \/ GoOnline \/ LiveQuery
SpecBusy == Init /\ [][NextBusy]_vars

(* ================================ claims ================================ *)
AllIdle == \A d \in DrainIds : drain[d].pc = "idle"
\* every write so far was made offline, the application then went online once,
\* and one drain has run to its end with every remote call succeeding
OneCleanDrain ==
  /\ hist.scen = "online"
  /\ hist.drains = 1 /\ hist.done = 1
  /\ AllIdle
\* the drain that ran (the first slot is taken first)
Replayed == drain[1].items
\* the iteration f of drain d is over in this step
Settles(d, f) == f \in drain[d].flight /\ f \notin drain'[d].flight
ItemOf(d, f) == drain[d].items[f.i]
InQueue(q, item) == \E e \in q : e.queueId = item.queueId
IsUpsert(item) == item.table = "time_logs" /\ item.action = "upsert"
IsInsert(item) == item.table \in {"tasks", "photos"} /\ item.action = "insert"

\* C1: after writes made entirely offline, one drain in which every remote call
\* succeeds leaves the remote store's rows equal to the local mirror's rows as
\* they were at the end of the offline sequence, up to remote-assigned ids.
C1_Convergence ==
  OneCleanDrain =>
    StoreView(r_time_logs, r_tasks, r_photos, r_settings) = hist.snap

\* C2: a queue entry whose remote write the store reported as failed (returned
\* error or thrown exception) is still in the queue after its iteration.
C2_FailedEntryKept ==
  [][\A d \in DrainIds : \A f \in drain[d].flight :
       (Settles(d, f) /\ f.out \in {"error", "throw"}
          /\ InQueue(sync_queue, ItemOf(d, f)))
       => InQueue(sync_queue', ItemOf(d, f))]_vars

\* C3: a time entry created offline, then a task created for it offline: after
\* going online and one successful drain the queue is empty and the remote
\* store holds exactly one time entry for that date and exactly one task, whose
\* log_id is the id the remote store gave that entry.
C3_Scenario ==
  /\ OneCleanDrain
  /\ Len(Replayed) = 2
  /\ IsUpsert(Replayed[1])
  /\ Replayed[1].rowId[1] = "L"
  /\ Replayed[2].table = "tasks" /\ Replayed[2].action = "insert"
  /\ Replayed[2].payload.log_id = Replayed[1].rowId
C3_DependentChain ==
  C3_Scenario =>
    /\ sync_queue = {}
    /\ Cardinality(r_tasks) = 1
    /\ \E r \in r_time_logs :
         /\ WhereDateUser(r_time_logs, Replayed[1].payload.date, UserId) = {r}
         /\ \A t \in r_tasks : t.log_id = r.id

\* C4: when the replay of a queued time-entry upsert returns a remote id that
\* differs from the entry's rowId, then after the entry is processed the local
\* mirror holds the time entry under the remote id, none under the old id, and
\* no local task or photo has log_id equal to the old id.
C4_Reconciled ==
  [][\A d \in DrainIds : \A f \in drain[d].flight :
       (Settles(d, f) /\ IsUpsert(ItemOf(d, f)) /\ f.out = "ok"
          /\ f.data.id # ItemOf(d, f).rowId)
       => /\ f.data \in time_logs'
          /\ ~Has(time_logs', ItemOf(d, f).rowId)
          /\ \A c \in tasks' \cup photos' : c.log_id # ItemOf(d, f).rowId]_vars
\* a time entry replayed under a new remote id, with a task and a photo that
\* were created for the old id now pointing at the remote id
C4_Witness ==
  \E d \in DrainIds : \E i \in 1..(drain[d].idx - 1) :
    LET item == drain[d].items[i]
    IN /\ IsUpsert(item)
       /\ item.rowId[1] = "L"
       /\ drain[d].flight = {}
       /\ ~Has(time_logs, item.rowId)
       /\ \E r \in time_logs :
            /\ r.date = item.payload.date /\ r.id[1] = "R"
            /\ \E t \in tasks \cup photos : t.log_id = r.id /\ t.id[1] = "L"

\* C5: two upsertTimeLog calls for the same (date, owner) while offline leave
\* exactly one local row for it and return the same id; after a successful
\* replay the remote store holds exactly one time entry for that (date, owner),
\* with the values of the second call.
C5_Scenario ==
  /\ OneCleanDrain
  /\ Len(Replayed) = 2
  /\ IsUpsert(Replayed[1]) /\ IsUpsert(Replayed[2])
  /\ Replayed[1].payload.date = Replayed[2].payload.date
C5_UpsertTwice ==
  /\ [][(/\ hist.scen = "offline"
         /\ ret.op = "upsertTimeLog" /\ ret'.op = "upsertTimeLog"
         /\ hist'.writes = hist.writes + 1
         /\ ret'.row.date = ret.row.date)
        => /\ ret'.row.id = ret.row.id
           /\ WhereDateUser(time_logs', ret.row.date, UserId) = {ret'.row}]_vars
  /\ [](C5_Scenario =>
          \E r \in r_time_logs :
            /\ WhereDateUser(r_time_logs, r.date, UserId) = {r}
            /\ r.date = Replayed[2].payload.date
            /\ r.time_in = Replayed[2].payload.time_in
            /\ r.time_out = Replayed[2].payload.time_out
            /\ r.hours_rendered = Replayed[2].payload.hours_rendered)
\* two different offline upserts of one new date were replayed by one drain
C5_Witness ==
  /\ C5_Scenario
  /\ Replayed[1].rowId = Replayed[2].rowId
  /\ Replayed[1].rowId[1] = "L"
  /\ Replayed[1].payload.time_out # Replayed[2].payload.time_out
  /\ sync_queue = {}

\* C6: replaying the same queue entry twice leaves the remote store as
\* replaying it once does: a queued task or photo insert that two drains both
\* replay does not produce two remote rows.
C6_IdempotentReplay ==
  \A d1, d2 \in DrainIds :
    \A f1 \in drain[d1].flight, f2 \in drain[d2].flight :
      (/\ d1 # d2
       /\ ItemOf(d1, f1).queueId = ItemOf(d2, f2).queueId
       /\ IsInsert(ItemOf(d1, f1))
       /\ f1.out = "ok" /\ f2.out = "ok"
       /\ {f1.data, f2.data} \subseteq (r_tasks \cup r_photos))
      => f1.data = f2.data

\* C7: at no time are two executions of processSyncQueue in progress.
C7_NoOverlap == Cardinality({d \in DrainIds : drain[d].pc = "run"}) <= 1

\* C8: on every transition from offline to online while the mutation queue is
\* non-empty, exactly one drain is started automatically.
C8_AutoDrainOnce ==
  [][(~online /\ online' /\ sync_queue # {})
       => hist'.drains = hist.drains + 1]_vars

\* C9: within one run the entries are replayed in strictly ascending queueId
\* order, and the remote call of an entry is issued only when the iteration
\* of the previous entry is over.
C9_OneByOneAscending ==
  [][\A d \in DrainIds :
       (drain[d].pc = "run" /\ drain'[d].pc = "run"
          /\ drain'[d].idx = drain[d].idx + 1)
       => /\ drain[d].flight = {}
          /\ \A k \in 1..(drain[d].idx - 1) :
               drain[d].items[k].queueId < drain[d].items[drain[d].idx].queueId]_vars
\* a drain has issued the remote calls of two entries
C9_Witness ==
  \E d \in DrainIds : drain[d].pc = "run" /\ drain[d].idx >= 3

\* C10: when the handler of an entry fails, the entry stays in the queue
\* unchanged, the drain goes on, every entry of the drain is attempted before
\* it ends, and the next drain takes up every entry still in the queue.
C10_FailureIsolated ==
  [][\A d \in DrainIds :
       /\ \A f \in drain[d].flight :
            (Settles(d, f) /\ f.out = "throw")
            => /\ sync_queue' = sync_queue
               /\ drain'[d].pc = "run"
               /\ drain'[d].idx = drain[d].idx
               /\ drain'[d].items = drain[d].items
               /\ drain'[d].synced = drain[d].synced
       /\ (drain[d].pc = "run" /\ drain'[d].pc = "idle")
            => drain[d].idx = Len(drain[d].items) + 1
       /\ (drain[d].pc = "idle" /\ drain'[d].pc = "run")
            => {drain'[d].items[k] : k \in 1..Len(drain'[d].items)} = sync_queue]_vars
\* a drain is over whose first entry failed and is still queued, and whose
\* second entry was replayed and removed
C10_Witness ==
  \E d \in DrainIds :
    /\ drain[d].pc = "idle"
    /\ Len(drain[d].items) >= 2
    /\ drain[d].synced < Len(drain[d].items)
    /\ drain[d].items[1] \in sync_queue
    /\ ~InQueue(sync_queue, drain[d].items[2])

\* the write operation that a queue entry's table and action stand for
OpOf(e) ==
  CASE e.table = "time_logs" /\ e.action = "upsert" -> "upsertTimeLog"
    [] e.table = "time_logs" /\ e.action = "delete" -> "deleteTimeLog"
    [] e.table = "tasks" /\ e.action = "insert" -> "createTask"
    [] e.table = "tasks" /\ e.action = "update" -> "updateTask"
    [] e.table = "tasks" /\ e.action = "delete" -> "deleteTask"
    [] e.table = "photos" /\ e.action = "insert" -> "uploadPhoto"
    [] e.table = "photos" /\ e.action = "delete" -> "deletePhoto"
    [] e.table = "settings" /\ e.action = "update" -> "updateSettings"
    [] OTHER -> "none"
\* the local table a queue entry is about
LocalTable(e, tl, tk, ph, st) ==
  CASE e.table = "time_logs" -> tl
    [] e.table = "tasks" -> tk
    [] e.table = "photos" -> ph
    [] OTHER -> st
\* a write operation was performed offline in this step
OfflineWriteStep == ~online /\ hist'.writes = hist.writes + 1

\* C12: the number processSyncQueue returns counts exactly the entries that the
\* run replayed successfully, which are the entries the run removed from the
\* queue: the counter goes up in an iteration if and only if the remote store
\* applied the entry and the iteration removed it from the queue.
C12_CountsReplayed ==
  [][\A d \in DrainIds : \A f \in drain[d].flight :
       Settles(d, f) =>
         ((drain'[d].synced = drain[d].synced + 1)
            <=> (/\ f.out = "ok"
                 /\ InQueue(sync_queue, ItemOf(d, f))
                 /\ ~InQueue(sync_queue', ItemOf(d, f))))]_vars

\* C14: a write operation performed offline leaves the remote store alone and
\* appends exactly one queue entry, whose table and action name the operation
\* and whose rowId is the id of the local row the operation wrote (or removed).
C14_OfflineEnqueue ==
  [][OfflineWriteStep =>
       /\ UNCHANGED remote
       /\ sync_queue \subseteq sync_queue'
       /\ \E e \in sync_queue' \ sync_queue :
            /\ sync_queue' = sync_queue \cup {e}
            /\ e.queueId = nextQueueId
            /\ OpOf(e) = ret'.op
            /\ IF e.action = "delete"
               THEN /\ Has(LocalTable(e, time_logs, tasks, photos, settings), e.rowId)
                    /\ ~Has(LocalTable(e, time_logs', tasks', photos', settings'),
                            e.rowId)
               ELSE /\ Has(LocalTable(e, time_logs', tasks', photos', settings'),
                           e.rowId)
                    /\ ret'.row.id = e.rowId]_vars
\* offline, a photo was deleted and the queue holds the entry of the deletion
C14_Witness ==
  /\ ~online /\ ret.op = "deletePhoto"
  /\ \E e \in sync_queue :
       e.table = "photos" /\ e.action = "delete" /\ ~Has(photos, e.rowId)

\* C19: a photo uploaded offline is stored locally with image_url equal to its
\* offline_blob, and its queue entry's payload holds only log_id and filename;
\* after a drain whose remote calls succeed the mirror holds the photo under the
\* remote row's id, with a remote URL and no offline_blob, and the remote store
\* holds exactly one row for each photo uploaded.
C19_Scenario ==
  /\ OneCleanDrain
  /\ Len(Replayed) >= 1
  /\ OpOf(Replayed[Len(Replayed)]) = "uploadPhoto"
C19_OfflinePhoto ==
  /\ [][(OfflineWriteStep /\ ret'.op = "uploadPhoto") =>
          /\ \E p \in photos' \ photos :
               /\ p.id = ret'.row.id
               /\ p.image_url = p.offline_blob
               /\ p.image_url = fileToBase64(p.offline_filename)
          /\ \E e \in sync_queue' \ sync_queue :
               /\ e.rowId = ret'.row.id
               /\ DOMAIN e.payload = {"log_id", "filename"}]_vars
  /\ [](C19_Scenario =>
          LET item == Replayed[Len(Replayed)]
          IN /\ ~Has(photos, item.rowId)
             /\ \E p \in photos :
                  /\ p \in r_photos
                  /\ p.id[1] = "R"
                  /\ p.image_url = <<"https", item.payload.filename>>
                  /\ "offline_blob" \notin DOMAIN p
             /\ Cardinality(r_photos) =
                  Cardinality({i \in 1..Len(Replayed) :
                                 OpOf(Replayed[i]) = "uploadPhoto"}))
\* a photo uploaded offline was replayed by one clean drain
C19_Witness ==
  /\ C19_Scenario
  /\ sync_queue = {}
  /\ \E p \in photos : p.id[1] = "R" /\ p.image_url[1] = "https"

\* a repository call starts / returns in this step
Starts(c) == call[c].op = "none" /\ call'[c].op # "none"
Returns(c) == call[c].op # "none" /\ call'[c].op = "none"
Range(seq) == {seq[i] : i \in 1..Len(seq)}

\* C11: processSyncQueue called while offline returns 0, issues no remote call
\* and leaves the mutation queue and the four local collections unchanged.
C11_OfflineDrainNoop ==
  [][(~online /\ hist'.calls = hist.calls + 1 /\ ret'.op = "processSyncQueue")
       => /\ ret'.synced = 0
          /\ UNCHANGED <<local, remote, sync_queue, drain>>]_vars
\* processSyncQueue was called offline with entries waiting in the queue
C11_Witness ==
  /\ ~online /\ ret.op = "processSyncQueue" /\ hist.calls > 0
  /\ ret.synced = 0
  /\ sync_queue # {}

\* C13: every write operation has written its change to the local mirror when
\* its first remote call is issued.
C13_LocalFirst ==
  [][\A c \in CallIds :
       (Starts(c) /\ call'[c].op \in WriteOps
          /\ call'[c].pc \in {"remote", "select"})
       => LET rec == call'[c]
          IN CASE rec.op \in {"upsertTimeLog"} -> rec.row \in time_logs'
               [] rec.op = "deleteTimeLog" -> ~Has(time_logs', rec.id)
               [] rec.op \in {"createTask", "updateTask"} -> rec.row \in tasks'
               [] rec.op = "deleteTask" -> ~Has(tasks', rec.id)
               [] rec.op = "uploadPhoto" -> Has(photos', rec.id)
               [] rec.op = "deletePhoto" -> ~Has(photos', rec.id)
               [] rec.op = "updateSettings" ->
                    \E r \in OwnSettings(settings') :
                      r.required_ojt_hours = rec.hours]_vars

\* C15: a write operation performed online whose remote call fails (returned
\* error or unreachable store) appends a queue entry for that write and does
\* not throw; the delete operations included.
C15_FailureQueued ==
  [][\A c \in CallIds :
       (Returns(c) /\ call[c].op \in WriteOps /\ ret'.out \in {"error", "throw"})
       => /\ ~ret'.threw
          /\ \E e \in sync_queue' \ sync_queue :
               /\ sync_queue' = sync_queue \cup {e}
               /\ OpOf(e) = call[c].op]_vars

GetTimeLogsReturns ==
  /\ ret'.op = "getTimeLogs"
  /\ \/ \E c \in CallIds : Returns(c) /\ call[c].op = "getTimeLogs"
     \/ ~online /\ hist'.calls = hist.calls + 1
IsSortedDesc(seq) ==
  \A i, j \in 1..Len(seq) : i < j => DateRank[seq[i].date] >= DateRank[seq[j].date]
\* C17: getTimeLogs called offline, or online with a failing remote query, does
\* not throw and returns exactly the owner's time entries of the local mirror,
\* sorted descending by date; after a successful online getTimeLogs the mirror
\* holds the rows that call returned.
C17_ReadFallback ==
  [][GetTimeLogsReturns =>
       /\ ~ret'.threw
       /\ IsSortedDesc(ret'.rows)
       /\ Len(ret'.rows) = Cardinality(Range(ret'.rows))
       /\ Range(ret'.rows) = OwnLogs(time_logs')
       /\ ret'.src = "local" => UNCHANGED time_logs]_vars
\* online, the remote query failed and two cached entries came back
C17_Witness ==
  /\ online /\ ret.op = "getTimeLogs" /\ hist.calls > 0
  /\ ret.src = "local"
  /\ Len(ret.rows) = 2
  /\ ret.rows[1].date # ret.rows[2].date

\* C18: after a successful online read the slice of the local mirror that the
\* read covers equals the remote result, and the call returns that result.
C18_CacheIsRemote ==
  [][\A c \in CallIds :
       (Returns(c) /\ call[c].op \in ReadOps /\ ret'.src = "remote")
       => LET op == call[c].op
              arg == call[c].arg
          IN /\ ret'.rows = RemoteRead(op, arg).rows
             /\ ret'.row = RemoteRead(op, arg).row
             /\ CASE op = "getTimeLogs" ->
                       OwnLogs(time_logs') = Range(ret'.rows)
                  [] op = "getTimeLogByDate" ->
                       WhereDateUser(time_logs', arg, UserId) =
                         IF ret'.row = NoRow THEN {} ELSE {ret'.row}
                  [] op = "getTasksByLogId" -> WhereLogId(tasks', arg) = ret'.rows
                  [] op = "getPhotosByLogId" ->
                       WhereLogId(photos', arg) = ret'.rows]_vars

\* C20: two getSettings calls that overlap, for a user with no settings row,
\* leave at most one settings row of the user in the local mirror and at most
\* one in the remote store.
C20_OneSettingsRow ==
  (hist.writes = 0 /\ hist.calls = 2 /\ hist.gets = 2 /\ hist.overlap)
    => /\ Cardinality(OwnSettings(settings)) <= 1
       /\ Cardinality(OwnSettings(r_settings)) <= 1

\* C21: the local mirror holds at most one settings row of the owner in every
\* reachable state, also when getSettings ran first offline and later online
\* (calls taken one after the other).
C21_OneLocalSettingsRow ==
  ~hist.overlap => Cardinality(OwnSettings(settings)) <= 1

\* C22: the local mirror holds at most one time entry per (date, owner) in
\* every reachable state.
C22_OneEntryPerDate ==
  \A a, b \in OwnLogs(time_logs) : a.date = b.date => a = b

\* the remote table a queue entry is about
RemoteTable(e) ==
  CASE e.table = "time_logs" -> r_time_logs
    [] e.table = "tasks" -> r_tasks
    [] e.table = "photos" -> r_photos
    [] e.table = "settings" -> r_settings
\* the remote store holds no row under the id of the entry, and (log_id being
\* a foreign key on time_logs) no task or photo of such a time entry
Gone(e) ==
  /\ ~Has(RemoteTable(e), e.rowId)
  /\ e.table = "time_logs" => \A ch \in r_tasks \cup r_photos : ch.log_id # e.rowId
\* drain d issues the remote call of its next item in this step
Issues(d) == drain[d].pc = "run" /\ drain'[d].idx = drain[d].idx + 1
\* C23: replaying a queued delete whose target row no longer exists in the
\* remote store is a success: the store answers, the remote store is unchanged,
\* the handler does not raise and the entry is removed from the queue.
C23_DeleteOfMissingRow ==
  [][\A d \in DrainIds :
       /\ Issues(d) =>
            LET item == drain[d].items[drain[d].idx]
            IN (/\ item.action = "delete"
                /\ Gone(item)
                /\ \E f \in drain'[d].flight : f.i = drain[d].idx /\ f.out = "ok")
               => UNCHANGED remote
       /\ \A f \in drain[d].flight :
            (Settles(d, f) /\ ItemOf(d, f).action = "delete" /\ f.out = "ok")
            => /\ ~InQueue(sync_queue', ItemOf(d, f))
               /\ drain'[d].synced = drain[d].synced + 1]_vars
\* a drain has replayed the delete of a row that was created and deleted
\* offline, so that the remote store never held a row under that id
C23_Witness ==
  \E d \in DrainIds : \E i \in 1..Len(drain[d].items) :
    LET item == drain[d].items[i]
    IN /\ item.action = "delete" /\ item.rowId[1] = "L"
       /\ i < drain[d].idx /\ drain[d].flight = {}
       /\ ~InQueue(sync_queue, item)
       /\ drain[d].synced >= 1
       /\ Gone(item)

\* the mirror holds neither the time entry id nor a task or photo of it
Removed(id, tl, tk, ph) ==
  /\ ~Has(tl, id)
  /\ \A ch \in tk \cup ph : ch.log_id # id
\* C26: deleteTimeLog(id) removes the local time entry and every local task and
\* photo whose log_id is id, and nothing else, whether the application is
\* online or offline and whatever the remote store answers.
C26_LocalCascade ==
  [][/\ \A c \in CallIds :
          /\ (Starts(c) /\ call'[c].op = "deleteTimeLog")
               => /\ time_logs' = {r \in time_logs : r.id # call'[c].id}
                  /\ tasks' = {t \in tasks : t.log_id # call'[c].id}
                  /\ photos' = {p \in photos : p.log_id # call'[c].id}
          /\ (Returns(c) /\ call[c].op = "deleteTimeLog")
               => /\ Removed(call[c].id, time_logs', tasks', photos')
                  /\ UNCHANGED local
     /\ (~online /\ hist'.writes = hist.writes + 1 /\ ret'.op = "deleteTimeLog")
          => \E id \in {r.id : r \in time_logs} :
               /\ time_logs' = {r \in time_logs : r.id # id}
               /\ tasks' = {t \in tasks : t.log_id # id}
               /\ photos' = {p \in photos : p.log_id # id}]_vars
\* online, the remote delete was rejected; the entry that was deleted had a
\* task created offline, and the mirror holds neither
C26_Witness ==
  /\ online /\ ret.op = "deleteTimeLog" /\ hist.calls > 0
  /\ "out" \in DOMAIN ret /\ ret.out = "throw"
  /\ tasks = {}
  /\ \E e \in sync_queue :
       /\ e.table = "tasks" /\ e.action = "insert"
       /\ ~Has(time_logs, e.payload.log_id)
       /\ \E g \in sync_queue :
            g.table = "time_logs" /\ g.action = "delete" /\ g.rowId = e.payload.log_id

\* C28: the mutation queue is append-only: a new entry gets the next value of
\* the auto-increment key, above every key handed out before, an entry's
\* fields never change, and an entry leaves the queue only in the step in
\* which a drain finishes the iteration of that entry with a handler that
\* returned.
C28_AppendOnly ==
  /\ [](\A e \in sync_queue : e.queueId < nextQueueId)
  /\ [][/\ nextQueueId' >= nextQueueId
        /\ \A e \in sync_queue' :
             ~InQueue(sync_queue, e) =>
               /\ e.queueId = nextQueueId
               /\ nextQueueId' = nextQueueId + 1
               /\ sync_queue' = sync_queue \cup {e}
        /\ \A e \in sync_queue : \A g \in sync_queue' :
             g.queueId = e.queueId => g = e
        /\ \A e \in sync_queue :
             ~InQueue(sync_queue', e) =>
               \E d \in DrainIds : \E f \in drain[d].flight :
                 /\ Settles(d, f)
                 /\ ItemOf(d, f) = e
                 /\ f.out # "throw"]_vars
\* a drain took a snapshot holding the first entry alone and removed it; the
\* entry enqueued afterwards has the key 2 and is alone in the queue
C28_Witness ==
  /\ \E e \in sync_queue : sync_queue = {e} /\ e.queueId = 2
  /\ nextQueueId = 3
  /\ \E d \in DrainIds :
       /\ Len(drain[d].items) = 1
       /\ drain[d].items[1].queueId = 1
       /\ drain[d].synced = 1

\* C24: between two SIGNED_OUT events seedOfflineDB is invoked at most once,
\* however many SIGNED_IN events fire, and the first SIGNED_IN after a
\* SIGNED_OUT (or after the provider was mounted) invokes it.
C24_SeedOncePerSession ==
  /\ [](hist.seeds <= 1)
  /\ [][/\ (hist'.signins = hist.signins + 1 /\ hist.seeds = 0)
             => hist'.seeds = 1 /\ hist'.calls = hist.calls + 1
        /\ (hist'.signins = hist.signins + 1 /\ hist.seeds = 1)
             => UNCHANGED <<call, ret, local, remote, seeded>>]_vars
\* a second session: after seeding, a repeated SIGNED_IN and a SIGNED_OUT, the
\* next SIGNED_IN has invoked seedOfflineDB again and a further SIGNED_IN has not
C24_Witness ==
  /\ hist.events = 4 /\ hist.signins = 2
  /\ hist.seeds = 1 /\ hist.calls = 2
  /\ seeded

\* seedOfflineDB returns in this step, its selects having answered with data
SeedCompletes(c) ==
  Returns(c) /\ call[c].op = "seedOfflineDB" /\ ret'.out = "ok"
\* C25: after seedOfflineDB completes online, the owner's rows in each of the
\* four local collections are exactly the rows fetched from the remote store,
\* also when the remote store returns no tasks or no photos.
C25_SeedReplaces ==
  [][\A c \in CallIds :
       SeedCompletes(c) =>
         /\ OwnLogs(time_logs') = SeedLogs
         /\ tasks' = SeedChildren(r_tasks)
         /\ photos' = SeedChildren(r_photos)
         /\ OwnSettings(settings') = OwnSettings(r_settings)]_vars

\* C30: seedOfflineDB called while offline issues no remote call and leaves the
\* four local collections and the mutation queue unchanged.
C30_SeedOfflineNoop ==
  [][(~online /\ hist'.seeds = hist.seeds + 1)
       => /\ ret'.op = "seedOfflineDB" /\ ~ret'.threw
          /\ UNCHANGED <<call, local, remote, sync_queue, nextQueueId>>]_vars
\* seedOfflineDB was called offline with unsynced work in the mirror
C30_Witness ==
  /\ ~online /\ ret.op = "seedOfflineDB" /\ ret.out = "offline"
  /\ hist.seeds = 1
  /\ sync_queue # {}
  /\ time_logs # r_time_logs

\* C27: deleteTimeLog rewrites the three local tables atomically: in no state
\* between two of its store calls, where another operation can run or a crash
\* can end the call, does a local task or photo reference the time entry that
\* the call has deleted.
C27_AtomicCascade ==
  \A c \in CallIds :
    (call[c].op = "deleteTimeLog" /\ call[c].pc \in {"tasks", "photos"})
      => \A ch \in tasks \cup photos : ch.log_id # call[c].id

\* C29: when the application stays online and every remote call succeeds, a
\* drain that was started terminates, and when it ends every entry of the
\* queue at its start has been removed; the queue is then empty if it holds no
\* entry enqueued meanwhile.
C29_DrainTerminates ==
  /\ \A d \in DrainIds : (drain[d].pc = "run") ~> (drain[d].pc = "idle")
  /\ [][\A d \in DrainIds :
          (drain[d].pc = "run" /\ drain'[d].pc = "idle")
          => /\ drain[d].synced = Len(drain[d].items)
             /\ \A i \in 1..Len(drain[d].items) :
                  ~InQueue(sync_queue', drain[d].items[i])
             /\ (\A e \in sync_queue :
                   \E i \in 1..Len(drain[d].items) : drain[d].items[i] = e)
                  => sync_queue' = {}]_vars
\* a drain that took two entries has ended, every remote call having succeeded,
\* and the queue is empty
C29_Witness ==
  /\ online /\ hist.scen = "online" /\ hist.done = 1
  /\ \E d \in DrainIds :
       /\ drain[d].pc = "idle"
       /\ Len(drain[d].items) = 2
       /\ drain[d].synced = 2
  /\ sync_queue = {}

\* a task was created offline and then changed offline, and one drain has
\* replayed the insert and the update with every remote call succeeding
C31_Scenario ==
  /\ OneCleanDrain
  /\ Len(Replayed) = 2
  /\ Replayed[1].table = "tasks" /\ Replayed[1].action = "insert"
  /\ Replayed[2].table = "tasks" /\ Replayed[2].action = "update"
  /\ Replayed[2].rowId = Replayed[1].rowId
\* C31: a task created offline and then changed offline has, after a
\* successful drain, the updated description in the remote store and in the
\* local mirror.
C31_UpdateAfterInsert ==
  C31_Scenario =>
    /\ \A t \in r_tasks : t.description = Replayed[2].payload.description
    /\ \A t \in tasks : t.description = Replayed[2].payload.description
    /\ r_tasks # {} /\ tasks # {}

\* a record was created offline and then deleted offline, and one drain has
\* replayed both entries with every remote call succeeding
C32_Scenario ==
  /\ OneCleanDrain
  /\ Len(Replayed) = 2
  /\ IsUpsert(Replayed[1]) \/ IsInsert(Replayed[1])
  /\ Replayed[1].rowId[1] = "L"
  /\ Replayed[2].table = Replayed[1].table /\ Replayed[2].action = "delete"
  /\ Replayed[2].rowId = Replayed[1].rowId
\* C32: a record created and then deleted while offline exists neither in the
\* local mirror nor in the remote store after the queue has been drained
\* successfully.
C32_CreateThenDelete ==
  C32_Scenario =>
    CASE Replayed[1].table = "time_logs" ->
           /\ WhereDateUser(time_logs, Replayed[1].payload.date, UserId) = {}
           /\ WhereDateUser(r_time_logs, Replayed[1].payload.date, UserId) = {}
      [] Replayed[1].table = "tasks" -> tasks = {} /\ r_tasks = {}
      [] Replayed[1].table = "photos" -> photos = {} /\ r_photos = {}

\* the local rows whose creating write is still in the mutation queue
Unsynced(q, tl, tk, ph) ==
  {r \in tl \cup tk \cup ph :
     \E e \in q : /\ IsUpsert(e) \/ IsInsert(e)
                  /\ e.rowId = r.id /\ e.rowId[1] = "L"}
\* C33: an online read refresh that runs before the drain removes no local row
\* whose creating write is still in the mutation queue.
C33_RefreshKeepsUnsynced ==
  [][\A c \in CallIds :
       (Returns(c) /\ call[c].op \in ReadOps)
       => Unsynced(sync_queue, time_logs, tasks, photos)
            \subseteq time_logs' \cup tasks' \cup photos']_vars

\* C34: a queue entry enqueued after a drain took its snapshot is neither
\* replayed nor removed by that drain: the snapshot does not change while the
\* drain runs, an iteration removes no entry outside the snapshot, the end of
\* the drain removes nothing, and a drain that starts takes every entry then
\* in the queue.
C34_LateEntryWaits ==
  [][\A d \in DrainIds :
       /\ (drain[d].pc = "run" /\ drain'[d].pc = "run")
            => drain'[d].items = drain[d].items
       /\ \A f \in drain[d].flight :
            Settles(d, f) =>
              /\ f.i \in 1..Len(drain[d].items)
              /\ \A e \in sync_queue :
                   e \notin Range(drain[d].items) => e \in sync_queue'
       /\ (drain[d].pc = "run" /\ drain'[d].pc = "idle")
            => sync_queue' = sync_queue
       /\ (drain[d].pc = "idle" /\ drain'[d].pc = "run")
            => Range(drain'[d].items) = sync_queue]_vars
\* an entry was enqueued while the first drain was running; that drain ended
\* without it, and the drain started next has replayed and removed it
C34_Witness ==
  /\ AllIdle /\ hist.done = 2
  /\ Len(drain[1].items) >= 1
  /\ \E i \in 1..Len(drain[2].items) :
       LET e == drain[2].items[i]
       IN /\ \A j \in 1..Len(drain[1].items) : drain[1].items[j].queueId < e.queueId
          /\ ~InQueue(sync_queue, e)
  /\ drain[2].synced >= 1

\* C35: isSyncing is true in every state in which a run of processSyncQueue
\* started by triggerSync is in progress, and false when none is.
C35_FlagTracksDrains ==
  isSyncing <=> (\E d \in DrainIds : drain[d].pc = "run")

\* updateTask(id, ..) is called in this step
UpdateTaskCalled(id) ==
  /\ hist'.writes = hist.writes + 1
  /\ ret'.op = "updateTask" /\ ret'.id = id

\* C36: updateTask for an id that has no row in the local mirror fails with
\* "Task not found" and changes nothing: no local row is written, no remote
\* call is issued (the remote store is as before) and no queue entry is added,
\* online as well as offline.
C36_TaskNotFound ==
  [][\A id \in IssuedIds :
       (UpdateTaskCalled(id) /\ ~Has(tasks, id))
       => /\ ret'.threw /\ ret'.message = "Task not found"
          /\ UNCHANGED <<local, remote, sync_queue, nextQueueId>>]_vars
C36_Witness ==
  /\ online /\ ret.op = "updateTask" /\ ret.threw
  /\ ret.id[1] = "L" /\ ~Has(tasks, ret.id)
  /\ \E t \in tasks : t.id[1] = "R"
  /\ sync_queue = {}

\* the record getSettings builds when the owner has none
IsDefault(row) ==
  /\ row.user_id = UserId
  /\ row.required_ojt_hours = 600
  /\ row.accent_color = "green" /\ row.theme = "light"
GetSettingsReturns(c) == Returns(c) /\ call[c].op = "getSettings"

\* C37: getSettings for an owner with no settings row, locally or remotely,
\* returns the default record (600, "green", "light") and leaves it as the
\* owner's only local row: online the record is the one it has just inserted
\* remotely, offline one it has made up under a local id.  The getSettings
\* call started after it has returned, online after a remote insert and
\* offline after a local one, returns that very record and changes no store
\* and hands out no id.
C37_DefaultsOnce ==
  [][\A c \in CallIds :
       /\ (/\ GetSettingsReturns(c)
           /\ OwnSettings(settings) = {} /\ OwnSettings(r_settings) = {})
          => /\ IsDefault(ret'.row) /\ ~ret'.threw
             /\ OwnSettings(settings') = {ret'.row}
             /\ call[c].pc = "insert"
                  => /\ ret'.row.id = NewRemoteId
                     /\ r_settings' = r_settings \cup {ret'.row}
             /\ call[c].pc = "create"
                  => ret'.row.id = NewUuid /\ r_settings' = r_settings
             /\ call[c].pc \in {"insert", "create"}
       /\ (/\ GetSettingsReturns(c)
           /\ ret.op = "getSettings" /\ IsDefault(ret.row) /\ ~hist.overlap
           /\ OwnSettings(settings) = {ret.row}
           /\ \/ OwnSettings(r_settings) = {ret.row}
              \/ /\ OwnSettings(r_settings) = {}
                 /\ ret.row.id[1] = "L"
                 /\ call[c].pc \in {"local", "create"})
          => /\ ret'.row = ret.row
             /\ UNCHANGED <<settings, r_settings, sync_queue, nextUuid,
                            nextRemoteId>>]_vars
C37_Witness ==
  /\ online /\ ret.op = "getSettings"
  /\ hist.gets = 2 /\ hist.calls = 2 /\ hist.writes = 0 /\ ~hist.overlap
  /\ \A c \in CallIds : ~Busy(c)
  /\ IsDefault(ret.row) /\ ret.row.id = <<"R", 1>>
  /\ settings = {ret.row} /\ r_settings = {ret.row}
  /\ nextUuid = 1 /\ nextRemoteId = 2

====
